---- MODULE Spec2Model ----
(***************************************************************************)
(* Model of src/src/index.js: the Xray token cache, the GraphQL client,    *)
(* the test-case creation workflow (preconditions, createTest, issue link) *)
(* and the test-step synthesizer.                                          *)
(*                                                                         *)
(* One action is one continuation of the JavaScript event loop: the code   *)
(* that runs from the arrival of a network outcome (response, rejection,   *)
(* deadline) up to the next outbound request or to the end of the call.    *)
(***************************************************************************)
EXTENDS Integers, Sequences, FiniteSets, TLC

VARIABLES
  now,                 \* Date.now(), in milliseconds
  ticks,               \* number of clock advances so far (bounds the run)
  cachedAuthToken,     \* index.js:10
  tokenExpiration,     \* index.js:11
  pc,                  \* position of createTestCaseInXray
  net,                 \* the outbound request in flight
  input,               \* arguments of createTestCaseInXray
  i,                   \* loop index of createXrayPreconditions (1-based)
  createdPreconditionIds, \* index.js:1707
  mutation,            \* arguments of the executeXrayGraphQL call in progress
  linkTypes,           \* linkTypesData.issueLinkTypes as received
  testCase,            \* value returned by createXrayTestCase
  result,              \* value returned by createTestCaseInXray
  error,               \* class of the error createTestCaseInXray threw
  reply,               \* what executeXrayGraphQL handed back to createXrayTestCase or a read flow
  tokenCall,           \* history: the latest getXrayAuthToken call
  obtained,            \* history: the latest token a successful exchange produced
  attempts,            \* history: outcome of each createPrecondition call of the run
  linkOutcome,         \* history: how the linkage stage of the run ended
  storyText,           \* synthesizer input: userStoryText
  testSteps,           \* synthesizer output: generateTestSteps(...)
  requirements,        \* synthesizer input: additionalRequirements
  content,             \* value returned by generateTestCaseContent
  repeated,            \* value returned by a second call with the same arguments
  extraction,          \* payload.issueId with the key and base URL a read flow derives
  call,                \* the exported read function invoked and its payload
  answer,              \* what the exported read function returned or threw
  exchange,            \* history: how the latest exchange of a read invocation ended
  sent,                \* history: requests issued by the invocation and by the
                       \* executeXrayGraphQL call in progress
  callers,             \* concurrent invocations inside getXrayAuthToken
  formatted,           \* a read flow's response built from the items of a page
  creation             \* the created test on its way into the result

vars == <<now, ticks, cachedAuthToken, tokenExpiration, pc, net, input, i,
          createdPreconditionIds, mutation, linkTypes, testCase, result, error,
          reply, tokenCall, obtained, attempts, linkOutcome, storyText, testSteps,
          requirements, content, repeated, extraction, call, answer, exchange, sent,
          callers, formatted, creation>>

clockVars == <<now, ticks>>
cacheVars == <<cachedAuthToken, tokenExpiration>>
synthVars == <<storyText, testSteps, requirements, content, repeated, extraction,
               callers, formatted, creation>>
runVars   == <<pc, net, input, i, createdPreconditionIds, mutation, linkTypes,
               testCase, result, error, reply, tokenCall, obtained, attempts,
               linkOutcome, call, answer, exchange, sent>>

----------------------------------------------------------------------------
(* Bounds of the model *)

MaxTicks == 3        \* clock advances per behaviour of the client
MaxExpiries == 1     \* validity windows that pass per behaviour of the workflow
MaxPre == 3          \* longest precondition list handed to the workflow
MaxCatalog == 2      \* longest issue-link-type catalog the tracker returns
MaxWords == 2        \* longest story text, in words
MaxSegments == 3     \* longest issue identifier, in segments
MaxItems == 2        \* items of a page
MaxCallers == 2      \* concurrent invocations inside getXrayAuthToken

(* Program constants *)

TokenTTL == 3600000  \* 60 * 60 * 1000, index.js:69
AuthDeadline == 5000       \* index.js:34
GraphQLDeadline == 10000   \* index.js:106
NoDeadline == 0            \* a request sent without an abort signal

----------------------------------------------------------------------------
(* Strings are sequences of one-character strings. *)

Quote == "\""

UpperToLower ==
  [c \in {"A","B","C","D","E","F","G","H","I","J","K","L","M","N","O","P","Q",
          "R","S","T","U","V","W","X","Y","Z"} |->
     CASE c = "A" -> "a" [] c = "B" -> "b" [] c = "C" -> "c" [] c = "D" -> "d"
       [] c = "E" -> "e" [] c = "F" -> "f" [] c = "G" -> "g" [] c = "H" -> "h"
       [] c = "I" -> "i" [] c = "J" -> "j" [] c = "K" -> "k" [] c = "L" -> "l"
       [] c = "M" -> "m" [] c = "N" -> "n" [] c = "O" -> "o" [] c = "P" -> "p"
       [] c = "Q" -> "q" [] c = "R" -> "r" [] c = "S" -> "s" [] c = "T" -> "t"
       [] c = "U" -> "u" [] c = "V" -> "v" [] c = "W" -> "w" [] c = "X" -> "x"
       [] c = "Y" -> "y" [] c = "Z" -> "z"]

\* String.prototype.toLowerCase
ToLowerCase(s) ==
  [k \in 1..Len(s) |-> IF s[k] \in DOMAIN UpperToLower THEN UpperToLower[s[k]] ELSE s[k]]

\* String.prototype.includes: a left-to-right scan for the first occurrence
RECURSIVE IncludesFrom(_, _, _)
IncludesFrom(s, sub, k) ==
  IF k + Len(sub) - 1 > Len(s) THEN FALSE
  ELSE IF SubSeq(s, k, k + Len(sub) - 1) = sub THEN TRUE
  ELSE IncludesFrom(s, sub, k + 1)

Includes(s, sub) == IncludesFrom(s, sub, 1)

----------------------------------------------------------------------------
(* AuthTokenCache: getXrayAuthToken, index.js:14-82 *)

NullToken == <<"null">>     \* the JavaScript null of cachedAuthToken
NullTime == -1              \* the JavaScript null of tokenExpiration

\* Bodies the authentication endpoint answers a 200 with: a quoted string literal
AuthBodies == { <<Quote, "a", Quote>>, <<Quote, "b", Quote>>, <<Quote, Quote>> }

\* token.replace(/"/g, ''), index.js:63
CleanToken(token) == SelectSeq(token, LAMBDA c : c # Quote)

\* JavaScript truthiness of a string-or-null and of a number-or-null
TruthyString(s) == s # NullToken /\ s # <<>>
TruthyNumber(n) == n # NullTime /\ n # 0

\* variants of the cache test: the expiry instant counted as valid, and no expiry test
CacheValid_atExpiry(token, expiration, t) ==
  TruthyString(token) /\ TruthyNumber(expiration) /\ t <= expiration

CacheValid_ignoresExpiry(token, expiration, t) ==
  TruthyString(token) /\ TruthyNumber(expiration)

\* index.js:16
CacheValid(token, expiration, t) ==
  TruthyString(token) /\ TruthyNumber(expiration) /\ t < expiration

NoRequest == [kind |-> "none"]
\* the fetch of index.js:36-43
AuthRequest == [kind |-> "auth", deadline |-> AuthDeadline]

\* the fetch of index.js:108-116; sentAt and tokenExpiration record the moment of
\* the send and the expiry the cache holds for the bearer token at that moment
GraphQLRequest(token, expiration, m) ==
  [kind |-> "graphql", deadline |-> GraphQLDeadline, token |-> token, mutation |-> m,
   sentAt |-> now, tokenExpiration |-> expiration]

NoTokenCall ==
  [made |-> FALSE, at |-> 0, hit |-> FALSE, inWindow |-> FALSE,
   previous |-> NullToken, cacheExpiration |-> NullTime,
   exchanges |-> 0, returned |-> NullToken]

NoneObtained == [token |-> NullToken, at |-> NullTime]

\* variant: the catch of getXrayAuthToken rethrows the AbortError itself
AuthCatch_rethrowsAbort(name) == name

\* the catch of getXrayAuthToken (index.js:73-81): an AbortError becomes the
\* authentication timeout, a plain Error; anything else is rethrown
AuthCatch(name) == IF name = "AbortError" THEN "authTimeout" ELSE name

\* the catch of executeXrayGraphQL (index.js:149-157): an AbortError becomes the
\* GraphQL timeout; anything else, an error of getXrayAuthToken included, is rethrown
GraphQLCatch(name) == IF name = "AbortError" THEN "graphqlTimeout" ELSE name

\* what the message of an error names: the rejections are built from the
\* response's status, status text and body (index.js:55, 128)
ErrorOf(class) ==
  [kind |-> "threw", class |-> class,
   carries |-> IF class \in {"authRejected", "graphqlRejected"}
               THEN {"status", "statusText", "body"} ELSE {}]

\* variant: the client fails when the body lists errors
ResponseData_failsOnErrors(errors, data) ==
  IF errors = "nonempty" THEN ErrorOf("graphqlErrors")
  ELSE [kind |-> "returned", errors |-> errors, data |-> data, issueId |-> [t |-> "null", d |-> 0]]

\* return responseData (index.js:131-148): the parsed body as it is
ResponseData(errors, data) ==
  [kind |-> "returned", errors |-> errors, data |-> data, issueId |-> [t |-> "null", d |-> 0]]

\* variant: the token is cached and the expiry is left as it was
CacheToken_keepsExpiry(cleanToken) ==
  /\ cachedAuthToken' = cleanToken
  /\ UNCHANGED tokenExpiration

\* index.js:68-69: the only assignments to the two module variables
CacheToken(cleanToken) ==
  /\ cachedAuthToken' = cleanToken
  /\ tokenExpiration' = now + TokenTTL

\* variant: the caller is handed what the cache held when the response arrived
TokenReturned_stale(cleanToken) == cachedAuthToken

\* return cleanToken (index.js:72)
TokenReturned(cleanToken) == cleanToken

\* a concurrent invocation that has not called getXrayAuthToken yet
IdleCaller ==
  [state |-> "idle", issued |-> FALSE, token |-> NullToken, at |-> NullTime,
   error |-> "none"]

NoCallers == [c \in 1..MaxCallers |-> IdleCaller]

\* requests issued: tracker lookups of the invocation, and the authentication
\* exchanges and GraphQL requests of the executeXrayGraphQL call in progress
NoneSent == [lookup |-> 0, auth |-> 0, graphql |-> 0]

\* executeXrayGraphQL(query, variables) up to its first network request:
\* index.js:85-116 with getXrayAuthToken, index.js:14-43, inlined at line 93
ExecuteXrayGraphQL(m) ==
  LET hit == CacheValid(cachedAuthToken, tokenExpiration, now)
  IN /\ mutation' = m
     /\ tokenCall' =
          [made |-> TRUE, at |-> now, hit |-> hit,
           inWindow |-> obtained.at # NullTime /\ now < obtained.at + TokenTTL,
           previous |-> obtained.token,
           cacheExpiration |-> tokenExpiration,
           exchanges |-> IF hit THEN 0 ELSE 1,
           returned |-> IF hit THEN cachedAuthToken ELSE NullToken]
     /\ net' = IF hit THEN GraphQLRequest(cachedAuthToken, tokenExpiration, m)
                     ELSE AuthRequest
     /\ sent' = [lookup |-> sent.lookup,
                 auth |-> IF hit THEN 0 ELSE 1,
                 graphql |-> IF hit THEN 1 ELSE 0]
     /\ UNCHANGED <<cacheVars, obtained>>

----------------------------------------------------------------------------
(* JavaScript values that may be missing: issue identifiers *)

NullId == [t |-> "null", d |-> 0]
TruthyId(v) == v.t # "null"

\* Number.prototype.toString / String.prototype.toString on an identifier
IdToString(v) == [t |-> "string", d |-> v.d]

\* issueId values a createTest payload may carry, and ids of originating issues
TestIssueIds == { [t |-> "string", d |-> 1], [t |-> "number", d |-> 2] }
StoryIds == { [t |-> "string", d |-> 1], [t |-> "string", d |-> 2] }

NoStory == [present |-> FALSE, id |-> NullId]
\* userStoryData: null, an issue without an id, or a fetched issue
StoryData == { NoStory } \cup { [present |-> TRUE, id |-> v] : v \in StoryIds \cup {NullId} }

\* Parsed bodies of a 200 GraphQL response: the top-level errors entry and how far
\* the data payload reaches (data, data.<operation>, data.<operation>.<entity>)
ErrorsShapes == { "absent", "empty", "nonempty" }
DataShapes == { "none", "noOperation", "noEntity", "entity" }

\* JavaScript truthiness of result.errors: an array, even an empty one, is truthy
TruthyErrors(errors) == errors # "absent"

\* a body that response.json() cannot parse (index.js:131)
NotJson == "notJson"

\* outcomes of an HTTP exchange other than a deadline
HttpOutcomes == { "ok", "notOk", "networkError" }

----------------------------------------------------------------------------
(* createXrayPreconditions, index.js:1703-1780 *)

\* index.js:1752-1763: the item is skipped on errors or on a missing payload
PreconditionAccepted(errors, data) == ~TruthyErrors(errors) /\ data = "entity"

\* variant: the catch of the loop body rethrows
PreconditionCatch_rethrow == "rethrow"

\* index.js:1772-1775: the catch of the loop body swallows the error
PreconditionCatch == "continue"

CreatePreconditionMutation(k) == [op |-> "createPrecondition", item |-> k]

\* index.js:1830-1837 with 1602-1606: the variables of the createTest mutation
CreateTestMutation(ids) ==
  [op |-> "createTest", preconditionIssueIds |-> ids, steps |-> input.steps]

\* the issueId the service gives the precondition it creates for item k
PreconditionIdOf(k) == k

\* variant: the loop ends one item early
NextIteration_endsEarly(ids) ==
  /\ createdPreconditionIds' = ids
  /\ IF i < input.n - 1
     THEN /\ i' = i + 1
          /\ pc' = "Preconditions"
          /\ ExecuteXrayGraphQL(CreatePreconditionMutation(i + 1))
     ELSE /\ i' = i
          /\ pc' = "TestCreation"
          /\ ExecuteXrayGraphQL(CreateTestMutation(ids))

\* the end of one loop iteration: the next item's mutation, or, after the last
\* item, the return to createTestCaseInXray, which issues createTest (1594-1617)
NextIteration(ids) ==
  /\ createdPreconditionIds' = ids
  /\ IF i < input.n
     THEN /\ i' = i + 1
          /\ pc' = "Preconditions"
          /\ ExecuteXrayGraphQL(CreatePreconditionMutation(i + 1))
     ELSE /\ i' = i
          /\ pc' = "TestCreation"
          /\ ExecuteXrayGraphQL(CreateTestMutation(ids))

----------------------------------------------------------------------------
(* createTestCaseInXray, index.js:1581-1648 *)

NoResult == [present |-> FALSE]
NoTestCase == [present |-> FALSE]
NoInput == [n |-> 0, steps |-> 0, userStoryData |-> NoStory]
NoReply == [kind |-> "none"]

\* variant: generateTestCase lets the error of the creation workflow through
Responded_rethrows(class) ==
  IF call.entry = "generateTestCase"
  THEN [kind |-> IF class = "xrayCreationError" THEN "threw" ELSE "returned",
        class |-> class, key |-> FALSE, options |-> <<>>]
  ELSE answer

\* generateTestCase attaches the outcome of createTestCaseInXray to its response
\* and returns it (index.js:1158-1185)
Responded(class) ==
  IF call.entry = "generateTestCase"
  THEN [kind |-> "returned", class |-> class, key |-> FALSE, options |-> <<>>]
  ELSE answer

\* the catch blocks of createXrayTestCase (1898-1901) and createTestCaseInXray
\* (1643-1647) rethrow: the run ends with the error and without a result
Throw(class) ==
  /\ pc' = "Failed"
  /\ error' = class
  /\ net' = NoRequest
  /\ answer' = Responded("xrayCreationError")
  /\ UNCHANGED <<cacheVars, obtained, tokenCall, mutation, i, createdPreconditionIds,
                 testCase, result, linkTypes, linkOutcome, sent>>

\* variant: the failed request is sent once more before the error is raised
QueryThrew_retries(class) ==
  /\ pc' = IF sent[net.kind] < 2 THEN pc ELSE "Done"
  /\ reply' = IF sent[net.kind] < 2 THEN reply ELSE ErrorOf(class)
  /\ net' = IF sent[net.kind] < 2 THEN net ELSE NoRequest
  /\ sent' = IF sent[net.kind] < 2 THEN [sent EXCEPT ![net.kind] = @ + 1] ELSE sent
  /\ answer' = IF sent[net.kind] < 2 THEN answer
               ELSE [kind |-> "threw", class |-> class, key |-> FALSE, options |-> <<>>]
  /\ UNCHANGED <<cacheVars, obtained, tokenCall, mutation, i, createdPreconditionIds,
                 testCase, result, error, linkTypes, linkOutcome, attempts>>

\* executeXrayGraphQL rethrows (index.js:149-157) to a read flow, whose catch
\* rethrows (367-372, 522-526, 640-644, 758-762, 909-913); the catch around the
\* second query of getTestSteps swallows the error (316-318)
QueryThrew(class) ==
  /\ pc' = "Done"
  /\ reply' = ErrorOf(class)
  /\ net' = NoRequest
  /\ answer' = IF pc = "Check"
               THEN [kind |-> "returned", class |-> "noTestData", key |-> TRUE,
                     options |-> <<>>]
               ELSE [kind |-> "threw", class |-> class, key |-> FALSE, options |-> <<>>]
  /\ UNCHANGED <<cacheVars, obtained, tokenCall, mutation, i, createdPreconditionIds,
                 testCase, result, error, linkTypes, linkOutcome, attempts, sent>>

\* an error thrown by executeXrayGraphQL reaches the caller's handler
GraphQLThrew(class) ==
  IF pc = "Preconditions"
  THEN /\ attempts' = Append(attempts, 0)
       /\ IF PreconditionCatch = "continue"
          THEN /\ NextIteration(createdPreconditionIds)
               /\ UNCHANGED <<testCase, result, error, linkTypes, linkOutcome, reply,
                              answer>>
          ELSE /\ Throw(class)
               /\ UNCHANGED reply
  ELSE IF pc = "TestCreation"
  THEN /\ Throw(class)
       /\ UNCHANGED <<attempts, reply>>
  ELSE QueryThrew(class)

\* index.js:1895
UserStoryLinked(userStoryData) == userStoryData.present

\* index.js:1889-1896
TestCaseOf(issueId) ==
  [present |-> TRUE, issueId |-> issueId,
   stepsCreated |-> mutation.steps,
   preconditionsLinked |-> Len(mutation.preconditionIssueIds),
   userStoryLinked |-> UserStoryLinked(input.userStoryData)]

\* variant: the result counts the preconditions that were asked for
ResultOf_countsInput(tc) ==
  [present |-> TRUE, jiraIssueId |-> tc.issueId,
   testStepsAdded |-> input.steps,
   preconditionsCreated |-> input.n]

\* index.js:1627-1638
ResultOf(tc) ==
  [present |-> TRUE, jiraIssueId |-> tc.issueId,
   testStepsAdded |-> input.steps,
   preconditionsCreated |-> Len(createdPreconditionIds)]

\* createXrayTestCase returns (1889) and createTestCaseInXray returns (1641);
\* the locals of linkTestCaseToUserStory are gone
Complete(issueId, outcome) ==
  /\ pc' = "Done"
  /\ net' = NoRequest
  /\ testCase' = TestCaseOf(issueId)
  /\ result' = ResultOf(TestCaseOf(issueId))
  /\ linkOutcome' = outcome
  /\ linkTypes' = <<>>
  /\ answer' = Responded("xrayTestCase")
  /\ UNCHANGED <<cacheVars, obtained, tokenCall, mutation, i, createdPreconditionIds,
                 error, attempts, sent>>

----------------------------------------------------------------------------
(* LinkTypeResolver and link creation: linkTestCaseToUserStory, index.js:1905-1996 *)

StrTest == <<"t","e","s","t">>

\* Entries the tracker's issueLinkType catalog may hold
LinkTypeEntries ==
  { [name |-> <<"B","l","o","c","k","s">>, inward |-> <<"i","s"," ","b","l","o","c","k","e","d"," ","b","y">>, outward |-> <<"b","l","o","c","k","s">>],
    [name |-> <<"T","e","s","t">>, inward |-> <<"i","s"," ","t","e","s","t","e","d"," ","b","y">>, outward |-> <<"t","e","s","t","s">>],
    [name |-> <<"C","o","v","e","r","a","g","e">>, inward |-> <<"i","s"," ","T","e","s","t","e","d"," ","b","y">>, outward |-> <<"c","o","v","e","r","s">>],
    [name |-> <<"C","h","e","c","k","s">>, inward |-> <<"i","s"," ","c","h","e","c","k","e","d"," ","b","y">>, outward |-> <<"T","E","S","T","S">>],
    [name |-> <<"C","o","n","t","e","s","t">>, inward |-> <<"f","r","o","m">>, outward |-> <<"t","o">>] }

Catalogs == UNION { [1..k -> LinkTypeEntries] : k \in 0..MaxCatalog }

NoLinkType == [name |-> <<>>, inward |-> <<>>, outward |-> <<>>]

\* variant: the comparison without toLowerCase
LinkTypeMatches_caseSensitive(linkType) ==
  \/ Includes(linkType.name, StrTest)
  \/ Includes(linkType.inward, StrTest)
  \/ Includes(linkType.outward, StrTest)

\* the predicate of index.js:1933-1937
LinkTypeMatches(linkType) ==
  \/ Includes(ToLowerCase(linkType.name), StrTest)
  \/ Includes(ToLowerCase(linkType.inward), StrTest)
  \/ Includes(ToLowerCase(linkType.outward), StrTest)

\* Array.prototype.find: the first element the predicate accepts, else undefined
RECURSIVE FindFrom(_, _)
FindFrom(catalog, k) ==
  IF k > Len(catalog) THEN NoLinkType
  ELSE IF LinkTypeMatches(catalog[k]) THEN catalog[k]
  ELSE FindFrom(catalog, k + 1)

\* index.js:1933
FindTestsLinkType(catalog) == FindFrom(catalog, 1)

\* variant: the two issues on the opposite sides of the link
LinkData_swapped(testsLinkType, testCaseIssueId, userStoryIssueId) ==
  [type |-> testsLinkType.name,
   inwardIssue |-> IdToString(userStoryIssueId),
   outwardIssue |-> IdToString(testCaseIssueId)]

\* index.js:1953-1963
LinkData(testsLinkType, testCaseIssueId, userStoryIssueId) ==
  [type |-> testsLinkType.name,
   inwardIssue |-> IdToString(testCaseIssueId),
   outwardIssue |-> IdToString(userStoryIssueId)]

\* GET /rest/api/3/issueLinkType, index.js:1913: no abort signal is passed
LinkTypesRequest(testCaseIssueId, userStoryIssueId) ==
  [kind |-> "linkTypes", deadline |-> NoDeadline, testCaseIssueId |-> testCaseIssueId,
   userStoryIssueId |-> userStoryIssueId]

\* POST /rest/api/3/issueLink, index.js:1968-1975: no abort signal is passed
IssueLinkRequest(linkData, testCaseIssueId, userStoryIssueId) ==
  [kind |-> "issueLink", deadline |-> NoDeadline, body |-> linkData,
   testCaseIssueId |-> testCaseIssueId, userStoryIssueId |-> userStoryIssueId]

----------------------------------------------------------------------------
(* ContentSynthesizer: generateTestCaseContent and generateTestSteps *)

Newline == "\n"
Space == " "
IsWhitespace(c) == c = Space \/ c = Newline

\* String.prototype.split('\n')
RECURSIVE SplitLines(_, _)
SplitLines(s, line) ==
  IF s = <<>> THEN <<line>>
  ELSE IF Head(s) = Newline THEN <<line>> \o SplitLines(Tail(s), <<>>)
  ELSE SplitLines(Tail(s), Append(line, Head(s)))

\* line.trim() is truthy: the line holds a character that is not whitespace
NonBlank(line) == \E k \in 1..Len(line) : ~IsWhitespace(line[k])

DefaultTitle == <<"G","e","n","e","r","a","t","e","d"," ","T","e","s","t"," ","C","a","s","e">>

\* variant: the title is the first line, blank or not
Title_firstLine(userStoryText) ==
  LET storyLines == SplitLines(userStoryText, <<>>)
  IN IF storyLines[1] # <<>> THEN storyLines[1] ELSE DefaultTitle

\* index.js:1302-1303
Title(userStoryText) ==
  LET storyLines == SelectSeq(SplitLines(userStoryText, <<>>), NonBlank)
  IN IF storyLines # <<>> /\ storyLines[1] # <<>> THEN storyLines[1] ELSE DefaultTitle

Step(steps, action, subject) ==
  Append(steps, [stepNumber |-> Len(steps) + 1, action |-> action, subject |-> subject])

\* index.js:1413-1426
BootstrapSteps ==
  << [stepNumber |-> 1, action |-> "Navigate to the application", subject |-> <<>>],
     [stepNumber |-> 2, action |-> "Authenticate with valid credentials", subject |-> <<>>] >>

RECURSIVE PushAll(_, _)
PushAll(steps, actions) ==
  IF actions = <<>> THEN steps
  ELSE PushAll(Step(steps, Head(actions), <<>>), Tail(actions))

\* index.js:1429
IsClothingStory(lowerStory) ==
  /\ Includes(lowerStory, <<"c","l","o","t","h","i","n","g">>)
  /\ (Includes(lowerStory, <<"s","u","g","g","e","s","t","i","o","n">>) \/ Includes(lowerStory, <<"r","e","c","o","m","m","e","n","d">>))

\* index.js:1437
IsWeatherStory(lowerStory) ==
  \/ Includes(lowerStory, <<"w","e","a","t","h","e","r">>)
  \/ Includes(lowerStory, <<"s","e","a","s","o","n">>)
  \/ Includes(lowerStory, <<"r","e","g","i","o","n">>)

\* index.js:1475
IsCreationStory(lowerStory) ==
  \/ Includes(lowerStory, <<"c","r","e","a","t","e">>)
  \/ Includes(lowerStory, <<"a","d","d">>)
  \/ Includes(lowerStory, <<"n","e","w">>)

\* variant: the default step is left out
TopicalSteps_noDefault(steps, lowerStory, title) ==
  IF IsClothingStory(lowerStory) /\ IsWeatherStory(lowerStory)
  THEN PushAll(steps, << "Navigate to the clothing recommendations section",
                         "Set or verify location and preferences",
                         "Request personalized clothing suggestions",
                         "Verify weather-based recommendations",
                         "Verify seasonal appropriateness",
                         "Verify regional considerations" >>)
  ELSE IF IsCreationStory(lowerStory)
       THEN PushAll(steps, << "Navigate to the creation feature",
                              "Fill in required information",
                              "Submit the creation request" >>)
       ELSE steps

\* index.js:1428-1505: the steps pushed after the two bootstrap steps
TopicalSteps(steps, lowerStory, title) ==
  IF IsClothingStory(lowerStory)
  THEN LET s3 == Step(steps, "Navigate to the clothing recommendations section", <<>>)
       IN IF IsWeatherStory(lowerStory)
          THEN PushAll(s3, << "Set or verify location and preferences",
                              "Request personalized clothing suggestions",
                              "Verify weather-based recommendations",
                              "Verify seasonal appropriateness",
                              "Verify regional considerations" >>)
          ELSE s3
  ELSE IF IsCreationStory(lowerStory)
       THEN PushAll(steps, << "Navigate to the creation feature",
                              "Fill in required information",
                              "Submit the creation request" >>)
       ELSE Step(steps, "Access the feature", ToLowerCase(title))

\* variant: the closing step numbered as in the generic flow
FinalStep_fixedNumber(steps) ==
  Append(steps, [stepNumber |-> 4, action |-> "Verify final state and functionality",
                 subject |-> <<>>])

\* index.js:1507-1513
FinalStep(steps) == Step(steps, "Verify final state and functionality", <<>>)

\* index.js:1406-1516
GenerateTestSteps(userStoryText, title) ==
  FinalStep(TopicalSteps(BootstrapSteps, ToLowerCase(userStoryText), title))

\* index.js:1519-1578
GenerateAcceptanceCriteria(userStoryText, additionalRequirements) ==
  LET reqLower == ToLowerCase(additionalRequirements)
      Push(criteria, criterion) ==
        Append(criteria, [id |-> Len(criteria) + 1, criterion |-> criterion])
      fixed == << [id |-> 1, criterion |-> "Functional Requirements"],
                  [id |-> 2, criterion |-> "User Interface"],
                  [id |-> 3, criterion |-> "Performance"],
                  [id |-> 4, criterion |-> "Data Integrity"],
                  [id |-> 5, criterion |-> "Error Handling"] >>
      c1 == IF Includes(reqLower, <<"s","e","c","u","r","i","t","y">>)
            THEN Push(fixed, "Security") ELSE fixed
      c2 == IF \/ Includes(reqLower, <<"m","o","b","i","l","e">>)
               \/ Includes(reqLower, <<"r","e","s","p","o","n","s","i","v","e">>)
            THEN Push(c1, "Mobile Compatibility") ELSE c1
      c3 == IF \/ Includes(reqLower, <<"b","r","o","w","s","e","r">>)
               \/ Includes(reqLower, <<"c","o","m","p","a","t","i","b","i","l","i","t","y">>)
            THEN Push(c2, "Browser Compatibility") ELSE c2
  IN IF additionalRequirements # <<>> THEN c3 ELSE fixed

NoContent == [present |-> FALSE]

StrTestColon == <<"T","e","s","t",":"," ">>

\* variant: the content carries the moment it was generated
GenerateTestCaseContent_stamped(userStoryText, additionalRequirements) ==
  [present |-> TRUE,
   summary |-> StrTestColon \o Title(userStoryText),
   description |-> [story |-> userStoryText, requirements |-> additionalRequirements,
                    generatedAt |-> now],
   testSteps |-> GenerateTestSteps(userStoryText, Title(userStoryText)),
   preconditions |-> 3,
   acceptanceCriteria |-> GenerateAcceptanceCriteria(userStoryText, additionalRequirements)]

\* index.js:1298-1380; the fixed expectedResults and testData lists are left out
GenerateTestCaseContent(userStoryText, additionalRequirements) ==
  [present |-> TRUE,
   summary |-> StrTestColon \o Title(userStoryText),
   description |-> [story |-> userStoryText, requirements |-> additionalRequirements],
   testSteps |-> GenerateTestSteps(userStoryText, Title(userStoryText)),
   preconditions |-> 3,
   acceptanceCriteria |-> GenerateAcceptanceCriteria(userStoryText, additionalRequirements)]

\* additionalRequirements: missing or empty, and texts that trigger the criteria
RequirementTexts ==
  { <<>>,
    <<"S","e","c","u","r","i","t","y">>,
    <<"m","o","b","i","l","e"," ","b","r","o","w","s","e","r">>,
    <<"l","o","g","i","n">> }

\* Words and phrases the story texts of the model are made of
Vocabulary ==
  { <<"C","l","o","t","h","i","n","g"," ","s","u","g","g","e","s","t","i","o","n">>,
    <<"R","E","C","O","M","M","E","N","D"," ","c","l","o","t","h","i","n","g">>,
    <<"c","l","o","t","h","i","n","g">>,
    <<"w","e","a","t","h","e","r">>,
    <<"S","e","a","s","o","n">>,
    <<"r","e","g","i","o","n">>,
    <<"c","r","e","a","t","e">>,
    <<"A","d","d">>,
    <<"n","e","w">>,
    <<"l","o","g","i","n">>,
    <<" ">> }

Separators == { <<Space>>, <<Newline>> }

RECURSIVE TextsOf(_)
TextsOf(k) ==
  IF k = 1 THEN Vocabulary
  ELSE { t \o sep \o w : t \in TextsOf(k - 1), sep \in Separators, w \in Vocabulary }

Texts == UNION { TextsOf(k) : k \in 1..MaxWords }

\* testCaseContent.testSteps.length for the texts above (index.js:1602, 1632)
StepCounts == { Len(GenerateTestSteps(t, Title(t))) : t \in Vocabulary }

----------------------------------------------------------------------------
(* createXrayTestCase, index.js:1783-1902 *)

\* variant: only the payload is inspected
TestAccepted_ignoresErrors(errors, data) == data = "entity"

\* index.js:1844-1853: errors or a missing payload abort the creation
TestAccepted(errors, data) == ~TruthyErrors(errors) /\ data = "entity"

\* variant: the link is attempted for every created test
LinkWanted_always(userStoryData, issueId) == TruthyId(issueId)

\* index.js:1865
LinkWanted(userStoryData, issueId) ==
  userStoryData.present /\ TruthyId(userStoryData.id) /\ TruthyId(issueId)

----------------------------------------------------------------------------
(* Issue key and base URL of the read flows, index.js:209-213, 387-427 *)

StrBrowse == <<"/","b","r","o","w","s","e","/">>

\* 'https://one-atlas-jevs.atlassian.net', index.js:426
StaticBaseUrl == <<"h","t","t","p","s",":","/","/","o","n","e","-","a","t","l","a","s","-",
                   "j","e","v","s",".","a","t","l","a","s","s","i","a","n",".","n","e","t">>

\* String.prototype.split(separator): the pieces between the occurrences of the
\* separator, found left to right without overlap
RECURSIVE SplitOn(_, _, _)
SplitOn(s, sep, piece) ==
  IF s = <<>> THEN <<piece>>
  ELSE IF Len(s) >= Len(sep) /\ SubSeq(s, 1, Len(sep)) = sep
       THEN <<piece>> \o SplitOn(SubSeq(s, Len(sep) + 1, Len(s)), sep, <<>>)
       ELSE SplitOn(Tail(s), sep, Append(piece, Head(s)))

Split(s, sep) == SplitOn(s, sep, <<>>)

\* index.js:209-213 (388-391, 541-544, 659-662, 777-780)
IssueKeyOf(issueId) ==
  IF Includes(issueId, StrBrowse)
  THEN LET urlParts == Split(issueId, StrBrowse) IN urlParts[Len(urlParts)]
  ELSE issueId

\* index.js:419-427 (565-572, 683-690, 801-808)
JiraBaseUrlOf(issueId) ==
  IF Includes(issueId, StrBrowse)
  THEN Split(issueId, StrBrowse)[1]
  ELSE StaticBaseUrl

NoExtraction == [present |-> FALSE]

\* Pieces the issue identifiers of the model are made of
Segments ==
  { <<"h",":","/","/","j",".","n","e","t">> \o StrBrowse,
    StrBrowse,
    <<"P","-","1">>,
    <<"?","f","=","1">>,
    <<"/","x">> }

RECURSIVE IdentifiersOf(_)
IdentifiersOf(k) ==
  IF k = 1 THEN Segments
  ELSE { t \o w : t \in IdentifiersOf(k - 1), w \in Segments }

\* payload.issueId: non-empty strings
Identifiers == UNION { IdentifiersOf(k) : k \in 1..MaxSegments }

----------------------------------------------------------------------------
(* The jira field of the items of a page, index.js:469-493, 844-880 *)

\* JSON texts are sequences of tokens: punctuation, string literals and words
Punct(c) == [t |-> "punct", v |-> <<c>>]
Str(s) == [t |-> "string", v |-> s]
Word(s) == [t |-> "word", v |-> s]

StrNull == <<"n","u","l","l">>
StrKey == <<"k","e","y">>
StrSummary == <<"s","u","m","m","a","r","y">>
StrStatus == <<"s","t","a","t","u","s">>
StrName == <<"n","a","m","e">>

\* JavaScript values: null, undefined, strings and objects (functions from the
\* property names to values)
NullValue == [t |-> "null", v |-> <<>>]
UndefinedValue == [t |-> "undefined", v |-> <<>>]
SyntaxError == [t |-> "SyntaxError", v |-> <<>>]
ParseFailed == [ok |-> FALSE, value |-> NullValue, next |-> 0]

\* JSON.parse (index.js:472, 848-849) on null, string literals and objects
RECURSIVE ParseValue(_, _)
RECURSIVE ParseMembers(_, _, _)
ParseValue(ts, k) ==
  IF k > Len(ts) THEN ParseFailed
  ELSE IF ts[k].t = "string"
  THEN [ok |-> TRUE, value |-> [t |-> "string", v |-> ts[k].v], next |-> k + 1]
  ELSE IF ts[k] = Word(StrNull)
  THEN [ok |-> TRUE, value |-> NullValue, next |-> k + 1]
  ELSE IF ts[k] = Punct("{")
  THEN IF k + 1 <= Len(ts) /\ ts[k + 1] = Punct("}")
       THEN [ok |-> TRUE, value |-> [t |-> "object", v |-> <<>>], next |-> k + 2]
       ELSE ParseMembers(ts, k + 1, <<>>)
  ELSE ParseFailed

ParseMembers(ts, k, members) ==
  IF k + 1 > Len(ts) \/ ts[k].t # "string" \/ ts[k + 1] # Punct(":")
  THEN ParseFailed
  ELSE LET parsed == ParseValue(ts, k + 2)
       IN IF ~parsed.ok \/ parsed.next > Len(ts) THEN ParseFailed
          ELSE LET object == [n \in DOMAIN members \cup {ts[k].v} |->
                                IF n = ts[k].v THEN parsed.value ELSE members[n]]
               IN IF ts[parsed.next] = Punct("}")
                  THEN [ok |-> TRUE, value |-> [t |-> "object", v |-> object],
                        next |-> parsed.next + 1]
                  ELSE IF ts[parsed.next] = Punct(",")
                  THEN ParseMembers(ts, parsed.next + 1, object)
                  ELSE ParseFailed

JSONParse(ts) ==
  LET parsed == ParseValue(ts, 1)
  IN IF parsed.ok /\ parsed.next = Len(ts) + 1 THEN parsed.value ELSE SyntaxError

\* the JSON text of an issue with the fields the queries ask for
\* (jira(fields: ["key", "summary", "status"]), index.js:447)
Stringify(issue) ==
  << Punct("{"), Str(StrKey), Punct(":"), Str(issue.key), Punct(","),
     Str(StrSummary), Punct(":"), Str(issue.summary), Punct(","),
     Str(StrStatus), Punct(":"),
     Punct("{"), Str(StrName), Punct(":"), Str(issue.status), Punct("}"),
     Punct("}") >>

\* issues the items of a page refer to
LinkedIssues ==
  { [key |-> <<"P","-","7">>, summary |-> <<"S","e","t">>, status |-> <<"D","o","n","e">>],
    [key |-> <<"Q","-","2">>, summary |-> <<"R","u","n">>, status |-> <<"O","p","e","n">>] }

\* texts that are not JSON: nothing, a word, a text cut short, a missing colon
BrokenTexts ==
  { <<>>, <<Word(<<"o","o","p","s">>)>>, <<Punct("{"), Str(StrKey), Punct(":")>>,
    <<Punct("{"), Str(StrKey), Str(<<"P","-","7">>), Punct("}")>> }

\* the jira field of an item: absent, null, a string, or an object, which is
\* written here by its JSON text
JiraFields ==
  { [type |-> "undefined", text |-> <<>>], [type |-> "null", text |-> <<>>] }
  \cup { [type |-> "string", text |-> Stringify(issue)] : issue \in LinkedIssues }
  \cup { [type |-> "string", text |-> text] : text \in BrokenTexts }
  \cup { [type |-> "object", text |-> Stringify(issue)] : issue \in LinkedIssues }

\* the flows that format a list of items
ListFlows == { "getPreconditions", "getTestSets", "getTestPlans", "getTestRuns" }

\* an item of results: a test run carries its blob in testExecution, which may
\* be missing
ItemsOf(flow) ==
  { [issueId |-> id, execution |-> TRUE, jira |-> jira] :
      id \in {1}, jira \in JiraFields }
  \cup IF flow = "getTestRuns"
       THEN { [issueId |-> 1, execution |-> FALSE,
               jira |-> [type |-> "undefined", text |-> <<>>]] }
       ELSE {}

RECURSIVE PagesOf(_, _)
PagesOf(flow, k) ==
  IF k = 0 THEN { <<>> }
  ELSE { Append(page, item) : page \in PagesOf(flow, k - 1), item \in ItemsOf(flow) }

Pages(flow) == UNION { PagesOf(flow, k) : k \in 0..MaxItems }

\* variant: the jira field is read without being parsed
JiraDataOf_unparsed(jira) ==
  IF jira.type = "object" THEN JSONParse(jira.text)
  ELSE IF jira.type = "string" THEN [t |-> "string", v |-> <<>>]
  ELSE [t |-> jira.type, v |-> <<>>]

\* index.js:470-475 (606-611, 724-729, 845-851): a string is parsed, and a
\* failure of the parse leaves jiraData null
JiraDataOf(jira) ==
  IF jira.type = "string"
  THEN LET parsed == JSONParse(jira.text)
       IN IF parsed.t = "SyntaxError" THEN NullValue ELSE parsed
  ELSE IF jira.type = "object" THEN JSONParse(jira.text)
  ELSE [t |-> jira.type, v |-> <<>>]

\* value?.name
Get(value, name) ==
  IF value.t = "object" /\ name \in DOMAIN value.v THEN value.v[name]
  ELSE UndefinedValue

Truthy(value) == value.t = "object" \/ (value.t = "string" /\ value.v # <<>>)

\* what the formatted item shows of a value: strings by their text
Shown(value) == [t |-> value.t, v |-> IF value.t = "string" THEN value.v ELSE <<>>]

NullLink == [t |-> "null", v |-> <<>>]

\* index.js:477-490 (613-626, 731-744, 853-876)
FormatItem(flow, item, jiraBaseUrl) ==
  LET jiraData == JiraDataOf(IF flow = "getTestRuns" /\ ~item.execution
                             THEN [type |-> "undefined", text |-> <<>>]
                             ELSE item.jira)
      jiraKey == Get(jiraData, StrKey)
      jiraSummary == Get(jiraData, StrSummary)
      jiraStatus == Get(Get(jiraData, StrStatus), StrName)
  IN [issueId |-> item.issueId,
      key |-> Shown(jiraKey),
      summary |-> Shown(jiraSummary),
      status |-> Shown(jiraStatus),
      link |-> IF Truthy(jiraKey)
               THEN [t |-> "string", v |-> jiraBaseUrl \o StrBrowse \o Shown(jiraKey).v]
               ELSE NullLink]

NoResponse == [present |-> FALSE]

\* index.js:495-518 (628-637, 746-755, 889-906): the response with the
\* formatted items
FormattedResponse(flow, results, jiraBaseUrl) ==
  [present |-> TRUE, flow |-> flow, results |-> results, kind |-> "returned",
   items |-> [k \in 1..Len(results) |-> FormatItem(flow, results[k], jiraBaseUrl)]]

----------------------------------------------------------------------------
(* The key and the URL of the created test, index.js:1855-1856, 1619-1631 *)

StrUndefined == <<"u","n","d","e","f","i","n","e","d">>
StrObject == <<"[","o","b","j","e","c","t"," ","O","b","j","e","c","t","]">>

\* the JSON text the service sends for jira(fields: ["key"]) (index.js:1801)
StringifyKey(key) == << Punct("{"), Str(StrKey), Punct(":"), Str(key), Punct("}") >>

\* keys the tracker gives the issue that createTest creates
CreatedKeys ==
  { <<p, "-", d>> : p \in {"P", "Q", "R"}, d \in {"1", "2"} }

\* the jira field of the created test: a string or an object, which is written
\* here by its JSON text
CreatedJiraFields(key) ==
  { [type |-> type, text |-> StringifyKey(key)] : type \in {"string", "object"} }

\* jiraBaseUrl on entry: undefined, the part of a browse URL before /browse/,
\* or the origin of userStoryData.self (index.js:1060-1063, 1093-1099)
BaseUrls ==
  { NullToken, <<"h",":","/","/","j",".","n","e","t">>, StaticBaseUrl }

\* index.js:1856, testCase.jira?.key: a property of an object; a string has no
\* property of that name
TestKeyOf(jira) ==
  IF jira.type = "object" THEN Get(JSONParse(jira.text), StrKey)
  ELSE UndefinedValue

\* a value inside a template literal (index.js:1630)
TemplateText(value) ==
  IF value.t = "string" THEN value.v
  ELSE IF value.t = "undefined" THEN StrUndefined
  ELSE IF value.t = "null" THEN StrNull
  ELSE StrObject

\* index.js:1620-1630
JiraUrlOf(jiraBaseUrl, jiraKey) ==
  LET baseUrl == IF TruthyString(jiraBaseUrl) THEN jiraBaseUrl ELSE StaticBaseUrl
  IN baseUrl \o StrBrowse \o TemplateText(jiraKey)

NoCreation == [stage |-> "none"]

----------------------------------------------------------------------------
(* The read flows: getXrayData and the five read functions, index.js:161-913 *)

\* the functions getXrayData routes to, each exported on its own as well
ReadFlows == { "getTestSteps", "getPreconditions", "getTestSets", "getTestPlans",
               "getTestRuns" }

\* the ids of the options getXrayData offers (index.js:170-174), in order
MenuOptions == << "test-steps", "preconditions", "test-sets", "test-plans", "test-runs" >>

\* values of payload.dataType: undefined, the empty string, the five ids, others
Missing == "undefined"
DataTypes == { Missing, "", "test-steps", "preconditions", "test-sets", "test-plans",
               "test-runs", "Test-Steps", "steps" }

\* JavaScript truthiness of payload.dataType (index.js:166)
TruthyDataType(dataType) == dataType # Missing /\ dataType # ""

\* variant: the default branch of the switch routes to getTestSteps
FlowOf_defaultsToSteps(dataType) ==
  CASE dataType = "preconditions" -> "getPreconditions"
    [] dataType = "test-sets" -> "getTestSets"
    [] dataType = "test-plans" -> "getTestPlans"
    [] dataType = "test-runs" -> "getTestRuns"
    [] OTHER -> "getTestSteps"

\* the switch of index.js:179-193; "none" is its default branch
FlowOf(dataType) ==
  CASE dataType = "test-steps" -> "getTestSteps"
    [] dataType = "preconditions" -> "getPreconditions"
    [] dataType = "test-sets" -> "getTestSets"
    [] dataType = "test-plans" -> "getTestPlans"
    [] dataType = "test-runs" -> "getTestRuns"
    [] OTHER -> "none"

\* the flows that test jiraResponse.ok before reading the body (index.js:234-238,
\* 410-414); getTestSets, getTestPlans and getTestRuns read it at once (561-562,
\* 679-680, 797-798)
ChecksStatus(flow) == flow \in { "getTestSteps", "getPreconditions" }

\* what a flow makes of the parsed GraphQL body: getTestSteps throws on a truthy
\* errors entry and on a missing data entry and checks again when data names no
\* test (index.js:283-298); the other flows read result.data.<operation> at once,
\* which throws when data is missing (458, 601, 719, 842)
ResultOfBody(flow, errors, data) ==
  IF flow = "getTestSteps"
  THEN IF TruthyErrors(errors) \/ data = "none" THEN "threw"
       ELSE IF data = "noOperation" THEN "check"
       ELSE "returned"
  ELSE IF data = "none" THEN "threw" ELSE "returned"

\* requestJira of index.js:225-230, 401-406, 553-558, 671-676, 789-794
LookupDeadline == 5000
LookupRequest(flow) == [kind |-> "lookup", deadline |-> LookupDeadline, flow |-> flow]

\* bodies of a tracker answer: an issue, a JSON error document, and no JSON
LookupBodies == { "issue", "errorMessages", "notJson" }

NoCall == [entry |-> "none", dataType |-> Missing, flow |-> "none", issueId |-> FALSE]
\* what an exported read function hands back: the menu with its options
\* (index.js:167-176), a result, or an error and whether its message names the key
AnswerOf(kind, class, key) ==
  [kind |-> kind, class |-> class, key |-> key,
   options |-> IF kind = "menu" THEN MenuOptions ELSE <<>>]

NoAnswer == AnswerOf("none", "none", FALSE)
NoExchange ==
  [kind |-> "none", status |-> "none", errors |-> "absent", data |-> "none",
   summary |-> <<>>]

\* the stages of a read invocation
ReadStages == { "Lookup", "Query", "Check" }

\* History only: the way the exchange that just ended went, kept for read
\* invocations
Observed(kind, status, errors, data) ==
  IF pc \in ReadStages
  THEN [kind |-> kind, status |-> status, errors |-> errors, data |-> data,
        summary |-> <<>>]
  ELSE exchange

\* a read function ends before its first request or with its lookup
Answer(kind, class, key) ==
  /\ pc' = "Done"
  /\ net' = NoRequest
  /\ answer' = AnswerOf(kind, class, key)
  /\ UNCHANGED <<cacheVars, obtained, tokenCall, mutation, sent, reply>>

\* variant: the lookup is requested before the identifier is tested
ReadFlow_looksUpFirst(flow, issueId) ==
  /\ pc' = "Lookup"
  /\ net' = LookupRequest(flow)
  /\ sent' = [sent EXCEPT !.lookup = @ + 1]
  /\ UNCHANGED <<cacheVars, obtained, tokenCall, mutation, answer, reply>>

\* a read function is entered (index.js:197-230): validation, then the lookup
ReadFlow(flow, issueId) ==
  IF ~issueId
  THEN Answer("threw", "issueIdRequired", FALSE)
  ELSE /\ pc' = "Lookup"
       /\ net' = LookupRequest(flow)
       /\ sent' = [sent EXCEPT !.lookup = @ + 1]
       /\ UNCHANGED <<cacheVars, obtained, tokenCall, mutation, answer, reply>>

----------------------------------------------------------------------------
(* generateTestCase up to the creation workflow, index.js:1022-1161 *)

UpperCase == DOMAIN UpperToLower
Digits == { "0", "1", "2", "3", "4", "5", "6", "7", "8", "9" }

\* the number of consecutive characters of s from position k on that are in chars
RECURSIVE Run(_, _, _)
Run(s, k, chars) ==
  IF k > Len(s) \/ s[k] \notin chars THEN 0 ELSE 1 + Run(s, k + 1, chars)

\* s continues with the literal lit at position k
StartsWith(s, k, lit) ==
  k + Len(lit) - 1 <= Len(s) /\ SubSeq(s, k, k + Len(lit) - 1) = lit

\* the length of the match of [A-Z]+-\d+ at position k, 0 without a match
KeyLengthAt(s, k) ==
  LET letters == Run(s, k, UpperCase)
      digits == Run(s, k + letters + 1, Digits)
  IN IF letters > 0 /\ StartsWith(s, k + letters, <<"-">>) /\ digits > 0
     THEN letters + 1 + digits
     ELSE 0

\* jiraKeyPattern.test(userStory), /^[A-Z]+-\d+$/ (index.js:1046)
JiraKeyPattern(userStory) == userStory # <<>> /\ KeyLengthAt(userStory, 1) = Len(userStory)

StrHttp == <<"h","t","t","p">>
StrColonSlashes == <<":","/","/">>

\* the group of /https?:\/\/[^\/]+\/browse\/([A-Z]+-\d+)/ for a match that
\* starts at position k, the empty string without one (index.js:1045)
UrlKeyAt(s, k) ==
  LET scheme == IF StartsWith(s, k, StrHttp \o <<"s">>) THEN 5 ELSE 4
      host == k + scheme + 3
      hostLength == Run(s, host, { s[j] : j \in 1..Len(s) } \ {"/"})
      key == host + hostLength + Len(StrBrowse)
  IN IF /\ StartsWith(s, k, StrHttp)
        /\ StartsWith(s, k + scheme, StrColonSlashes)
        /\ hostLength > 0
        /\ StartsWith(s, host + hostLength, StrBrowse)
        /\ KeyLengthAt(s, key) > 0
     THEN SubSeq(s, key, key + KeyLengthAt(s, key) - 1)
     ELSE <<>>

\* userStory.match(jiraUrlPattern)[1]: the leftmost match
RECURSIVE UrlKeyFrom(_, _)
UrlKeyFrom(s, k) ==
  IF k > Len(s) THEN <<>>
  ELSE IF UrlKeyAt(s, k) # <<>> THEN UrlKeyAt(s, k)
  ELSE UrlKeyFrom(s, k + 1)

JiraUrlPattern(userStory) == UrlKeyFrom(userStory, 1) # <<>>

\* index.js:1048: the input names an issue of the tracker
IsIssueReference(userStory) == JiraUrlPattern(userStory) \/ JiraKeyPattern(userStory)

\* index.js:1052-1061: the key the issue is fetched by
StoryKeyOf(userStory) ==
  IF Includes(userStory, StrBrowse) /\ JiraUrlPattern(userStory)
  THEN UrlKeyFrom(userStory, 1)
  ELSE userStory

StrDescription == <<"\n","\n","D","e","s","c","r","i","p","t","i","o","n",":"," ">>

\* index.js:1086: the text the synthesis works on after a successful fetch
UserStoryTextOf(issue) == issue.summary \o StrDescription \o issue.description

\* values of payload.userStory: undefined, the empty string, free text, free
\* text after a blank line, a key, a key the pattern does not cover, and a
\* browse URL
UserStories ==
  { NullToken, <<>>,
    <<"l","o","g","i","n","\n","c","r","e","a","t","e">>,
    <<" ","\n","l","o","g","i","n">>,
    <<"P","R","O","J","-","1","0">>,
    <<"P","2","-","1">>,
    <<"h","t","t","p","s",":","/","/","j",".","n","e","t","/","b","r","o","w","s","e","/","P","R","O","J","-","1","0">> }

\* issues the tracker may return: summary and formatted description
FetchedIssues ==
  { [summary |-> <<"L","o","g","i","n"," ","f","e","a","t","u","r","e">>,
     description |-> <<"N","o"," ","d","e","s","c","r","i","p","t","i","o","n"," ","p","r","o","v","i","d","e","d">>],
    [summary |-> <<"C","l","o","t","h","i","n","g"," ","s","u","g","g","e","s","t","i","o","n">>,
     description |-> <<"A","d","d"," ","w","e","a","t","h","e","r">>] }

\* values of payload.additionalRequirements
AgentRequirements == { <<>>, <<"S","e","c","u","r","i","t","y">> }

\* the request of index.js:1066-1070, sent without an abort signal
StoryRequest(issueKey) == [kind |-> "story", deadline |-> NoDeadline, issueKey |-> issueKey]

\* the requests of getUserStory (index.js:930-937) and getLinkedTestCases (1204-1208)
IssueRequest(entry) == [kind |-> "issue", deadline |-> NoDeadline, entry |-> entry]

----------------------------------------------------------------------------
(* Initial state: the module is loaded, nothing has been called *)

Init ==
  /\ now = 0
  /\ ticks = 0
  /\ cachedAuthToken = NullToken
  /\ tokenExpiration = NullTime
  /\ pc = "Idle"
  /\ net = NoRequest
  /\ input = NoInput
  /\ i = 0
  /\ createdPreconditionIds = <<>>
  /\ mutation = [op |-> "none"]
  /\ linkTypes = <<>>
  /\ testCase = NoTestCase
  /\ result = NoResult
  /\ error = "none"
  /\ reply = NoReply
  /\ tokenCall = NoTokenCall
  /\ obtained = NoneObtained
  /\ attempts = <<>>
  /\ linkOutcome = "none"
  /\ storyText = <<>>
  /\ testSteps = <<>>
  /\ requirements = <<>>
  /\ content = NoContent
  /\ repeated = NoContent
  /\ extraction = NoExtraction
  /\ call = NoCall
  /\ answer = NoAnswer
  /\ exchange = NoExchange
  /\ sent = NoneSent
  /\ callers = NoCallers
  /\ formatted = NoResponse
  /\ creation = NoCreation

----------------------------------------------------------------------------
(* Actions *)

\* Clock advances the model distinguishes: one millisecond, and one millisecond
\* short of the token's validity window
Deltas == { 1, TokenTTL - 1 }

\* time passes
Tick ==
  /\ ticks < MaxTicks
  /\ \E d \in Deltas : now' = now + d
  /\ ticks' = ticks + 1
  /\ UNCHANGED <<cacheVars, runVars, synthVars>>

\* a whole validity window passes
Expire ==
  /\ ticks < MaxExpiries
  /\ now' = now + TokenTTL
  /\ ticks' = ticks + 1
  /\ UNCHANGED <<cacheVars, runVars, synthVars>>

\* a read flow calls executeXrayGraphQL (index.js:280, 456, 599, 717, 840)
Query(flow, id) ==
  /\ pc' = "Query"
  /\ ExecuteXrayGraphQL([op |-> "query", flow |-> flow, issueId |-> id])
  /\ UNCHANGED <<answer, reply>>

\* getXrayData(payload), index.js:161-194
GetXrayData ==
  /\ pc = "Idle"
  /\ \E dataType \in DataTypes, issueId \in BOOLEAN :
       /\ call' = [entry |-> "getXrayData", dataType |-> dataType,
                   flow |-> IF TruthyDataType(dataType) THEN FlowOf(dataType) ELSE "none",
                   issueId |-> issueId]
       /\ IF ~TruthyDataType(dataType)
          THEN Answer("menu", "options", FALSE)
          ELSE IF FlowOf(dataType) = "none"
          THEN Answer("threw", "unknownDataType", FALSE)
          ELSE ReadFlow(FlowOf(dataType), issueId)
  /\ UNCHANGED <<clockVars, synthVars, input, i, createdPreconditionIds, linkTypes,
                 testCase, result, error, attempts, linkOutcome, exchange>>

\* one of the five read functions is invoked on its own (index.js:197, 376, 530,
\* 648, 766)
CallReadFlow ==
  /\ pc = "Idle"
  /\ \E flow \in ReadFlows, issueId \in BOOLEAN :
       /\ call' = [entry |-> flow, dataType |-> Missing, flow |-> flow,
                   issueId |-> issueId]
       /\ ReadFlow(flow, issueId)
  /\ UNCHANGED <<clockVars, synthVars, input, i, createdPreconditionIds, linkTypes,
                 testCase, result, error, attempts, linkOutcome, exchange>>

\* the tracker answers the lookup (index.js:232-250, 408-436, 560-578, 678-696,
\* 796-814)
LookupResponse ==
  /\ net.kind = "lookup"
  /\ \E status \in HttpOutcomes, body \in LookupBodies :
       /\ status = "ok" => body # "errorMessages"
       /\ status = "networkError" => body = "notJson"
       /\ status = "notOk" => body # "issue"
       /\ exchange' = Observed("lookup", status, "absent", "none")
       /\ IF \/ status = "networkError"
             \/ status = "notOk" /\ ChecksStatus(net.flow)
             \/ body = "notJson"
          THEN Answer("threw", "lookupFailed", TRUE)
          ELSE Query(net.flow, IF body = "issue" THEN [t |-> "string", d |-> 1] ELSE NullId)
  /\ UNCHANGED <<clockVars, synthVars, input, i, createdPreconditionIds, linkTypes,
                 testCase, result, error, attempts, linkOutcome, call>>

\* the 5-second deadline of the lookup fires (index.js:222, 245-248)
LookupTimeout ==
  /\ net.kind = "lookup"
  /\ exchange' = Observed("lookup", "timeout", "absent", "none")
  /\ Answer("threw", "lookupTimeout", TRUE)
  /\ UNCHANGED <<clockVars, synthVars, input, i, createdPreconditionIds, linkTypes,
                 testCase, result, error, attempts, linkOutcome, call>>

\* generateTestCase calls createTestCaseInXray (index.js:1160), which runs up to
\* the first createPrecondition request (1588-1594, 1709-1750)
CreateTestCaseInXray(n, steps, us) ==
  /\ input' = [n |-> n, steps |-> steps, userStoryData |-> us]
  /\ i' = 1
  /\ createdPreconditionIds' = <<>>
  /\ attempts' = <<>>
  /\ pc' = "Preconditions"
  /\ ExecuteXrayGraphQL(CreatePreconditionMutation(1))
  /\ UNCHANGED <<linkTypes, testCase, result, error, reply, linkOutcome, answer>>

\* the workflow on its own, for every list of preconditions up to MaxPre
Start ==
  /\ pc = "Idle"
  /\ \E n \in 1..MaxPre, steps \in StepCounts, us \in StoryData :
       CreateTestCaseInXray(n, steps, us)
  /\ UNCHANGED <<clockVars, synthVars, call, exchange>>

\* the authentication exchange answers (index.js:45-72, or 50-56 and 73-81)
AuthResponse(bodies) ==
  /\ net.kind = "auth"
  /\ \E status \in HttpOutcomes :
       /\ exchange' = Observed("auth", status, "absent", "none")
       /\ IF status = "ok"
          THEN \E body \in bodies :
                 LET cleanToken == CleanToken(body)
                 IN /\ CacheToken(cleanToken)
                    /\ obtained' = [token |-> cleanToken, at |-> now]
                    /\ tokenCall' = [tokenCall EXCEPT !.returned = cleanToken]
                    /\ net' = GraphQLRequest(cleanToken, now + TokenTTL, mutation)
                    /\ sent' = [sent EXCEPT !.graphql = @ + 1]
                    /\ UNCHANGED <<pc, i, createdPreconditionIds, mutation, linkTypes,
                                   testCase, result, error, reply, attempts, linkOutcome,
                                   answer>>
          ELSE GraphQLThrew(GraphQLCatch(AuthCatch(
                 IF status = "notOk" THEN "authRejected" ELSE "networkError")))
  /\ UNCHANGED <<clockVars, synthVars, input, call>>

\* the 5-second deadline of the authentication exchange fires (index.js:34, 74-77)
AuthTimeout ==
  /\ net.kind = "auth"
  /\ GraphQLThrew(GraphQLCatch(AuthCatch("AbortError")))
  /\ exchange' = Observed("auth", "timeout", "absent", "none")
  /\ UNCHANGED <<clockVars, synthVars, input, call>>

\* the 10-second deadline of the GraphQL request fires (index.js:106, 150-153)
GraphQLTimeout ==
  /\ net.kind = "graphql"
  /\ GraphQLThrew(GraphQLCatch("AbortError"))
  /\ exchange' = Observed("graphql", "timeout", "absent", "none")
  /\ UNCHANGED <<clockVars, synthVars, input, call>>

\* History only: a creation call succeeded when the response has a success
\* status, carries the created entity, and its errors array is absent or empty
CreationSucceeded(errors, data) == errors \in {"absent", "empty"} /\ data = "entity"

\* createXrayPreconditions receives the parsed body (index.js:1750-1770)
PreconditionResponse(errors, data, issueId) ==
  /\ attempts' = Append(attempts, IF CreationSucceeded(errors, data) THEN issueId ELSE 0)
  /\ NextIteration(IF PreconditionAccepted(errors, data)
                   THEN Append(createdPreconditionIds, issueId)
                   ELSE createdPreconditionIds)
  /\ UNCHANGED <<testCase, result, error, linkTypes, linkOutcome, reply, answer>>

\* createXrayTestCase receives the parsed body (index.js:1842-1887)
TestResponse(errors, data, issueId) ==
  /\ UNCHANGED attempts
  /\ reply' = [kind |-> "returned", errors |-> errors, data |-> data,
               issueId |-> IF data = "entity" THEN issueId ELSE NullId]
  /\ IF ~TestAccepted(errors, data)
     THEN Throw(IF TruthyErrors(errors) THEN "graphqlErrors" ELSE "noData")
     ELSE IF LinkWanted(input.userStoryData, issueId)
          THEN /\ pc' = "Linking"
               /\ net' = LinkTypesRequest(issueId, input.userStoryData.id)
               /\ UNCHANGED <<cacheVars, obtained, tokenCall, mutation, i,
                              createdPreconditionIds, testCase, result, error,
                              linkTypes, linkOutcome, answer, sent>>
          ELSE Complete(issueId, "notAttempted")

\* executeXrayGraphQL returns the parsed body to a read flow (index.js:131-148),
\* which reads it (282-365, 458-521, 601-639, 719-757, 842-908); getTestSteps
\* runs a second query when the body names no test (298-318)
QueryResponse(errors, data) ==
  /\ reply' = ResponseData(errors, data)
  /\ IF pc = "Query" /\ ResultOfBody(mutation.flow, errors, data) = "check"
     THEN /\ pc' = "Check"
          /\ ExecuteXrayGraphQL([op |-> "check", flow |-> mutation.flow])
          /\ UNCHANGED answer
     ELSE /\ pc' = "Done"
          /\ net' = NoRequest
          /\ answer' =
               IF pc = "Check"
               THEN AnswerOf("returned", "noTestData", TRUE)
               ELSE IF ResultOfBody(mutation.flow, errors, data) = "threw"
               THEN AnswerOf("threw", "unreadable", FALSE)
               ELSE AnswerOf("returned", "data", TRUE)
          /\ UNCHANGED <<cacheVars, obtained, tokenCall, mutation, sent>>
  /\ UNCHANGED <<i, createdPreconditionIds, testCase, result, error, linkTypes,
                 linkOutcome, attempts>>

\* the GraphQL endpoint answers (index.js:118-148, or 123-129 and 154-156); a
\* body that is not JSON makes response.json() throw (131, 154-156)
GraphQLResponse ==
  /\ net.kind = "graphql"
  /\ \E status \in HttpOutcomes :
       IF status = "ok"
       THEN \/ \E errors \in ErrorsShapes, data \in DataShapes :
                 /\ exchange' = Observed("graphql", status, errors, data)
                 /\ IF pc = "Preconditions"
                    THEN PreconditionResponse(errors, data, PreconditionIdOf(i))
                    ELSE IF pc = "TestCreation"
                    THEN \E issueId \in TestIssueIds \cup {NullId} :
                           TestResponse(errors, data, issueId)
                    ELSE QueryResponse(errors, data)
            \/ /\ exchange' = Observed("graphql", status, "absent", NotJson)
               /\ GraphQLThrew(GraphQLCatch("SyntaxError"))
       ELSE /\ exchange' = Observed("graphql", status, "absent", "none")
            /\ GraphQLThrew(GraphQLCatch(
                 IF status = "notOk" THEN "graphqlRejected" ELSE "networkError"))
  /\ UNCHANGED <<clockVars, synthVars, input, call>>

\* the tracker answers the link-type catalog request (index.js:1919-1975);
\* an error is caught by createXrayTestCase (1874-1877), which then returns
LinkTypesResponse(catalogs) ==
  /\ net.kind = "linkTypes"
  /\ \E status \in HttpOutcomes :
       IF status = "ok"
       THEN \E catalog \in catalogs :
              LET testsLinkType == FindTestsLinkType(catalog)
              IN /\ IF testsLinkType = NoLinkType
                    THEN /\ pc' = "Done"
                         /\ net' = NoRequest
                         /\ testCase' = TestCaseOf(reply.issueId)
                         /\ result' = ResultOf(TestCaseOf(reply.issueId))
                         /\ linkOutcome' = "noLinkType"
                         /\ answer' = Responded("xrayTestCase")
                    ELSE /\ net' = IssueLinkRequest(
                                     LinkData(testsLinkType, net.testCaseIssueId,
                                              net.userStoryIssueId),
                                     net.testCaseIssueId, net.userStoryIssueId)
                         /\ UNCHANGED <<pc, testCase, result, linkOutcome, answer>>
                 /\ linkTypes' = catalog
                 /\ UNCHANGED <<cacheVars, obtained, tokenCall, mutation, i,
                                createdPreconditionIds, error, attempts, reply, sent>>
       ELSE /\ Complete(reply.issueId, "fetchFailed")
            /\ UNCHANGED reply
  /\ UNCHANGED <<clockVars, synthVars, input, call, exchange>>

\* the tracker answers the link creation request (index.js:1977-1990, 1873-1896)
IssueLinkResponse ==
  /\ net.kind = "issueLink"
  /\ \E status \in HttpOutcomes :
       Complete(reply.issueId, IF status = "ok" THEN "created" ELSE "rejected")
  /\ UNCHANGED <<clockVars, synthVars, input, reply, call, exchange>>

\* the invocation returns to the platform (index.js:365, 1185); its locals are gone
Return ==
  /\ pc \in {"Done", "Failed"}
  /\ pc' = "Idle"
  /\ net' = NoRequest
  /\ input' = NoInput
  /\ i' = 0
  /\ createdPreconditionIds' = <<>>
  /\ mutation' = [op |-> "none"]
  /\ linkTypes' = <<>>
  /\ testCase' = NoTestCase
  /\ result' = NoResult
  /\ error' = "none"
  /\ reply' = NoReply
  /\ tokenCall' = NoTokenCall
  /\ attempts' = <<>>
  /\ linkOutcome' = "none"
  /\ call' = NoCall
  /\ answer' = NoAnswer
  /\ exchange' = NoExchange
  /\ sent' = NoneSent
  /\ storyText' = <<>>
  /\ testSteps' = <<>>
  /\ requirements' = <<>>
  /\ content' = NoContent
  /\ UNCHANGED <<clockVars, cacheVars, obtained, repeated, extraction, callers, formatted, creation>>

\* The token cache and the GraphQL client under a sequence of read-flow calls
Next ==
  \/ Tick
  \/ GetXrayData
  \/ CallReadFlow
  \/ LookupResponse
  \/ LookupTimeout
  \/ AuthResponse(AuthBodies)
  \/ AuthTimeout
  \/ GraphQLResponse
  \/ GraphQLTimeout
  \/ Return

Spec == Init /\ [][Next]_vars

\* The workflow sees the catalogs of at most one entry; LinkSpec sees them all
ShortCatalogs == { c \in Catalogs : Len(c) <= 1 }

\* The workflow sees one token and the empty token; Spec sees every body
WorkflowAuthBodies == { <<Quote, "a", Quote>>, <<Quote, Quote>> }

\* The creation workflow
OrchNext ==
  \/ Expire
  \/ Start
  \/ AuthResponse(WorkflowAuthBodies)
  \/ AuthTimeout
  \/ GraphQLResponse
  \/ GraphQLTimeout
  \/ LinkTypesResponse(ShortCatalogs)
  \/ IssueLinkResponse
  \/ Return

OrchSpec == Init /\ [][OrchNext]_vars

\* The deadlines are timers of the event loop: once armed they fire unless the
\* response arrives first. Nothing obliges an external service to answer.
FairOrchSpec ==
  /\ OrchSpec
  /\ WF_vars(AuthTimeout)
  /\ WF_vars(GraphQLTimeout)

\* generateTestCase from the synthesis on (index.js:1107-1185): the content is
\* generated, and with a project key the creation workflow is started
Proceed(userStoryText, additionalRequirements, projectKey, us) ==
  LET testCaseContent == GenerateTestCaseContent(userStoryText, additionalRequirements)
  IN /\ storyText' = userStoryText
     /\ requirements' = additionalRequirements
     /\ content' = testCaseContent
     /\ testSteps' = testCaseContent.testSteps
     /\ IF projectKey
        THEN CreateTestCaseInXray(testCaseContent.preconditions,
                                  Len(testCaseContent.testSteps), us)
        ELSE /\ pc' = "Done"
             /\ net' = NoRequest
             /\ answer' = AnswerOf("returned", "generatedTestCase", FALSE)
             /\ UNCHANGED <<cacheVars, obtained, tokenCall, mutation, sent, input, i,
                            createdPreconditionIds, attempts, linkTypes, testCase,
                            result, error, reply, linkOutcome>>

\* generateTestCase(payload) up to its first request (index.js:1022-1070, or to
\* its end for a text without a project key)
GenerateTestCase ==
  /\ pc = "Idle"
  /\ \E userStory \in UserStories, projectKey \in BOOLEAN,
        additionalRequirements \in AgentRequirements :
       /\ call' = [entry |-> "generateTestCase", dataType |-> Missing, flow |-> "none",
                   issueId |-> FALSE, userStory |-> userStory,
                   projectKey |-> projectKey,
                   additionalRequirements |-> additionalRequirements]
       /\ IF ~TruthyString(userStory)
          THEN /\ Answer("threw", "userStoryRequired", FALSE)
               /\ UNCHANGED <<input, i, createdPreconditionIds, attempts, linkTypes,
                              testCase, result, error, linkOutcome, storyText,
                              testSteps, requirements, content>>
          ELSE IF IsIssueReference(userStory)
          THEN /\ pc' = "Story"
               /\ net' = StoryRequest(StoryKeyOf(userStory))
               /\ UNCHANGED <<cacheVars, obtained, tokenCall, mutation, sent, input, i,
                              createdPreconditionIds, attempts, linkTypes, testCase,
                              result, error, reply, linkOutcome, answer, storyText,
                              testSteps, requirements, content>>
          ELSE Proceed(userStory, additionalRequirements, projectKey, NoStory)
  /\ UNCHANGED <<clockVars, repeated, extraction, callers, formatted, creation, exchange>>

\* the tracker answers the fetch of the originating issue (index.js:1072-1101): a
\* failure is caught and the input is synthesized as plain text
StoryResponse ==
  /\ net.kind = "story"
  /\ \E status \in HttpOutcomes :
       IF status = "ok"
       THEN \E issue \in FetchedIssues, id \in {[t |-> "string", d |-> 1], NullId} :
              /\ exchange' = [kind |-> "story", status |-> status, errors |-> "absent",
                              data |-> "none", summary |-> issue.summary]
              /\ Proceed(UserStoryTextOf(issue), call.additionalRequirements,
                         call.projectKey, [present |-> TRUE, id |-> id])
       ELSE /\ exchange' = [kind |-> "story", status |-> status, errors |-> "absent",
                            data |-> "none", summary |-> <<>>]
            /\ Proceed(call.userStory, call.additionalRequirements, call.projectKey,
                       NoStory)
  /\ UNCHANGED <<clockVars, repeated, extraction, callers, formatted, creation, call>>

\* getUserStory(payload) and getLinkedTestCases(payload) up to their request
\* (index.js:916-937, 1191-1208)
GetLinkedIssues ==
  /\ pc = "Idle"
  /\ \E entry \in {"getUserStory", "getLinkedTestCases"}, issueId \in BOOLEAN :
       /\ call' = [entry |-> entry, dataType |-> Missing, flow |-> "none",
                   issueId |-> issueId]
       /\ IF ~issueId
          THEN Answer("threw", "issueIdRequired", FALSE)
          ELSE /\ pc' = "Issue"
               /\ net' = IssueRequest(entry)
               /\ UNCHANGED <<cacheVars, obtained, tokenCall, mutation, sent, reply,
                              answer>>
  /\ UNCHANGED <<clockVars, synthVars, input, i, createdPreconditionIds, linkTypes,
                 testCase, result, error, attempts, linkOutcome, exchange>>

\* the tracker answers getUserStory or getLinkedTestCases (index.js:939-1017,
\* 1210-1294)
IssueResponse ==
  /\ net.kind = "issue"
  /\ \E status \in HttpOutcomes :
       IF status = "ok"
       THEN Answer("returned", "links", TRUE)
       ELSE Answer("threw", "issueFetchFailed", FALSE)
  /\ UNCHANGED <<clockVars, synthVars, input, i, createdPreconditionIds, linkTypes,
                 testCase, result, error, attempts, linkOutcome, call, exchange>>

\* Every exported operation of the agent, one invocation at a time
AgentNext ==
  \/ Expire
  \/ GetXrayData
  \/ CallReadFlow
  \/ LookupResponse
  \/ LookupTimeout
  \/ GetLinkedIssues
  \/ IssueResponse
  \/ GenerateTestCase
  \/ StoryResponse
  \/ AuthResponse(WorkflowAuthBodies)
  \/ AuthTimeout
  \/ GraphQLResponse
  \/ GraphQLTimeout
  \/ LinkTypesResponse(ShortCatalogs)
  \/ IssueLinkResponse
  \/ Return

AgentSpec == Init /\ [][AgentNext]_vars

----------------------------------------------------------------------------
(* getXrayAuthToken under concurrent invocations, index.js:14-82 *)

\* an invocation calls getXrayAuthToken and runs to its first await: the cached
\* token is returned (16-18) or the authentication request is sent (36-43)
RaceCall(c) ==
  /\ callers[c].state = "idle"
  /\ callers' =
       [callers EXCEPT ![c] =
          IF CacheValid(cachedAuthToken, tokenExpiration, now)
          THEN [state |-> "returned", issued |-> FALSE, token |-> cachedAuthToken,
                at |-> now, error |-> "none"]
          ELSE [state |-> "waiting", issued |-> TRUE, token |-> NullToken,
                at |-> NullTime, error |-> "none"]]
  /\ UNCHANGED <<clockVars, cacheVars, runVars, storyText, testSteps, requirements,
                 content, repeated, extraction, formatted, creation>>

\* the exchange of one invocation answers (index.js:45-72, or 50-56 and 73-81)
RaceAuthResponse(c) ==
  /\ callers[c].state = "waiting"
  /\ \E status \in HttpOutcomes :
       IF status = "ok"
       THEN \E body \in AuthBodies :
              /\ CacheToken(CleanToken(body))
              /\ callers' = [callers EXCEPT ![c] =
                   [state |-> "returned", issued |-> TRUE,
                    token |-> TokenReturned(CleanToken(body)), at |-> now,
                    error |-> "none"]]
       ELSE /\ callers' = [callers EXCEPT ![c] =
                   [state |-> "failed", issued |-> TRUE, token |-> NullToken,
                    at |-> now,
                    error |-> AuthCatch(IF status = "notOk" THEN "authRejected"
                                        ELSE "networkError")]]
            /\ UNCHANGED cacheVars
  /\ UNCHANGED <<clockVars, runVars, storyText, testSteps, requirements, content,
                 repeated, extraction, formatted, creation>>

\* the 5-second deadline of one invocation's exchange fires (index.js:34, 74-77)
RaceAuthTimeout(c) ==
  /\ callers[c].state = "waiting"
  /\ callers' = [callers EXCEPT ![c] =
       [state |-> "failed", issued |-> TRUE, token |-> NullToken, at |-> now,
        error |-> AuthCatch("AbortError")]]
  /\ UNCHANGED <<clockVars, cacheVars, runVars, storyText, testSteps, requirements,
                 content, repeated, extraction, formatted, creation>>

\* Concurrent invocations, each calling getXrayAuthToken once, while time passes
RaceNext ==
  \/ Tick
  \/ \E c \in 1..MaxCallers : RaceCall(c)
  \/ \E c \in 1..MaxCallers : RaceAuthResponse(c)
  \/ \E c \in 1..MaxCallers : RaceAuthTimeout(c)

RaceSpec == Init /\ [][RaceNext]_vars

----------------------------------------------------------------------------
(* The linkage stage on its own, over every catalog *)

\* linkTestCaseToUserStory(first, second) has just been called and its catalog
\* request is in flight, after a run that created its three preconditions and the test
\* issue testId with a freshly fetched token, for the originating issue storyId
LinkCall(steps, testId, storyId, first, second) ==
  /\ now = 0
  /\ ticks = 0
  /\ cachedAuthToken = <<"a">>
  /\ tokenExpiration = TokenTTL
  /\ pc = "Linking"
  /\ input = [n |-> 3, steps |-> steps, userStoryData |-> [present |-> TRUE, id |-> storyId]]
  /\ net = LinkTypesRequest(first, second)
  /\ mutation = [op |-> "createTest", preconditionIssueIds |-> <<1, 2, 3>>, steps |-> steps]
  /\ reply = [kind |-> "returned", errors |-> "absent", data |-> "entity",
              issueId |-> testId]
  /\ i = 3
  /\ createdPreconditionIds = <<1, 2, 3>>
  /\ linkTypes = <<>>
  /\ testCase = NoTestCase
  /\ result = NoResult
  /\ error = "none"
  /\ tokenCall = [made |-> TRUE, at |-> 0, hit |-> TRUE, inWindow |-> TRUE,
                  previous |-> <<"a">>, cacheExpiration |-> TokenTTL,
                  exchanges |-> 0, returned |-> <<"a">>]
  /\ obtained = [token |-> <<"a">>, at |-> 0]
  /\ attempts = <<1, 2, 3>>
  /\ linkOutcome = "none"
  /\ storyText = <<>>
  /\ testSteps = <<>>
  /\ requirements = <<>>
  /\ content = NoContent
  /\ repeated = NoContent
  /\ extraction = NoExtraction
  /\ call = NoCall
  /\ answer = NoAnswer
  /\ exchange = NoExchange
  /\ sent = [lookup |-> 0, auth |-> 0, graphql |-> 1]
  /\ callers = NoCallers
  /\ formatted = NoResponse
  /\ creation = NoCreation

\* the call of createXrayTestCase (index.js:1872): a state of the workflow
LinkInit ==
  \E steps \in StepCounts, testId \in TestIssueIds, storyId \in StoryIds :
    LinkCall(steps, testId, storyId, testId, storyId)

LinkNext ==
  \/ LinkTypesResponse(Catalogs)
  \/ IssueLinkResponse

LinkSpec == LinkInit /\ [][LinkNext]_vars

\* linkTestCaseToUserStory as a function of its two positional parameters: the
\* two identifiers handed over in either order
ResolverInit ==
  \E steps \in StepCounts, testId \in TestIssueIds, storyId \in StoryIds :
    \/ LinkCall(steps, testId, storyId, testId, storyId)
    \/ LinkCall(steps, testId, storyId, storyId, testId)

ResolverSpec == ResolverInit /\ [][LinkNext]_vars

----------------------------------------------------------------------------
(* The synthesizer as a function of its input *)

\* generateTestCaseContent(userStoryText, ...) computes the steps (index.js:1337)
Synthesize ==
  /\ storyText = <<>>
  /\ \E text \in Texts, additionalRequirements \in RequirementTexts :
       /\ storyText' = text
       /\ requirements' = additionalRequirements
       /\ content' = GenerateTestCaseContent(text, additionalRequirements)
       /\ testSteps' = GenerateTestCaseContent(text, additionalRequirements).testSteps
  /\ UNCHANGED <<clockVars, cacheVars, runVars, repeated, extraction, callers, formatted, creation>>

\* a later call of generateTestCaseContent with the same two arguments
SynthesizeAgain ==
  /\ content.present
  /\ ~repeated.present
  /\ repeated' = GenerateTestCaseContent(storyText, requirements)
  /\ UNCHANGED <<clockVars, cacheVars, runVars, storyText, testSteps, requirements,
                 content, extraction, callers, formatted, creation>>

SynthNext ==
  \/ Synthesize
  \/ Expire
  \/ SynthesizeAgain

SynthSpec == Init /\ [][SynthNext]_vars

----------------------------------------------------------------------------
(* The items of a read flow's page, index.js:469-493, 605-626, 723-744, 844-880 *)

\* the response of the page is built once
FormatResults ==
  /\ ~formatted.present
  /\ \E flow \in ListFlows :
       \E results \in Pages(flow) :
         formatted' = FormattedResponse(flow, results, StaticBaseUrl)
  /\ UNCHANGED <<clockVars, cacheVars, runVars, storyText, testSteps, requirements,
                 content, repeated, extraction, callers, creation>>

FormatNext == FormatResults

FormatSpec == Init /\ [][FormatNext]_vars

----------------------------------------------------------------------------
(* The created test in the result, index.js:1855-1896 and 1619-1641 *)

\* createXrayTestCase reads the created test off the response (index.js:1855-1856)
\* and returns it (1889-1896)
ReadCreatedTest ==
  /\ creation.stage = "none"
  /\ \E key \in CreatedKeys, issueId \in TestIssueIds, jiraBaseUrl \in BaseUrls :
       \E jira \in CreatedJiraFields(key) :
         creation' = [stage |-> "testCase", created |-> key, jira |-> jira,
                      jiraBaseUrl |-> jiraBaseUrl, issueId |-> issueId,
                      jiraKey |-> Shown(TestKeyOf(jira))]
  /\ UNCHANGED <<clockVars, cacheVars, runVars, storyText, testSteps, requirements,
                 content, repeated, extraction, callers, formatted>>

\* createTestCaseInXray builds its result (index.js:1619-1641)
BuildResult ==
  /\ creation.stage = "testCase"
  /\ creation' = [stage |-> "result", created |-> creation.created,
                  jira |-> creation.jira, jiraBaseUrl |-> creation.jiraBaseUrl,
                  jiraIssueId |-> creation.issueId,
                  jiraKey |-> creation.jiraKey,
                  jiraUrl |-> JiraUrlOf(creation.jiraBaseUrl, creation.jiraKey)]
  /\ UNCHANGED <<clockVars, cacheVars, runVars, storyText, testSteps, requirements,
                 content, repeated, extraction, callers, formatted>>

CreationNext ==
  \/ ReadCreatedTest
  \/ BuildResult

CreationSpec == Init /\ [][CreationNext]_vars

----------------------------------------------------------------------------
(* Key extraction as a function of payload.issueId *)

\* a read flow derives the key it looks up and the base URL of its links
ExtractKey ==
  /\ ~extraction.present
  /\ \E issueId \in Identifiers :
       extraction' = [present |-> TRUE, issueId |-> issueId,
                      key |-> IssueKeyOf(issueId),
                      jiraBaseUrl |-> JiraBaseUrlOf(issueId)]
  /\ UNCHANGED <<clockVars, cacheVars, runVars, storyText, testSteps, requirements,
                 content, repeated, callers, formatted, creation>>

KeyNext == ExtractKey

KeySpec == Init /\ [][KeyNext]_vars

----------------------------------------------------------------------------
(* Properties *)

\* C1, as stated: a getXrayAuthToken call made while a previously obtained token
\* is inside its 1-hour window returns that token and issues no authentication
\* exchange; a call made after the window issues exactly one exchange.
C1_TokenReuse ==
  tokenCall.made =>
    IF tokenCall.inWindow
    THEN tokenCall.exchanges = 0 /\ tokenCall.returned = tokenCall.previous
    ELSE tokenCall.exchanges = 1

\* C1, amended: the same for a previously obtained token that is not the empty
\* string; an empty token is never served from the cache, each call made while
\* it is cached issues exactly one exchange.
C1_NonEmptyTokenReuse ==
  tokenCall.made =>
    IF tokenCall.inWindow /\ tokenCall.previous # <<>>
    THEN tokenCall.exchanges = 0 /\ tokenCall.returned = tokenCall.previous
    ELSE tokenCall.exchanges = 1

\* a call inside the window of a token obtained by an earlier invocation
C1_Witness ==
  /\ tokenCall.made
  /\ tokenCall.inWindow
  /\ tokenCall.previous # <<>>
  /\ tokenCall.at > obtained.at
  /\ net.kind = "graphql"

\* a call at the very millisecond the window closes
C1_ExpiredWitness ==
  /\ tokenCall.made
  /\ tokenCall.previous # NullToken
  /\ tokenCall.at = tokenCall.cacheExpiration
  /\ net.kind = "auth"

\* C2: a token is returned from the cache, or sent as the bearer credential of a
\* GraphQL request, only while now < its expiresAt; when the cache did not
\* serve the call, the bearer token is the one a new exchange has just produced.
C2_TokenValidWhenUsed ==
  /\ (tokenCall.made /\ tokenCall.hit) =>
       /\ tokenCall.at < tokenCall.cacheExpiration
       /\ tokenCall.returned = cachedAuthToken
  /\ net.kind = "graphql" =>
       /\ net.sentAt < net.tokenExpiration
       /\ net.token = tokenCall.returned
       /\ ~tokenCall.hit =>
            /\ tokenCall.exchanges = 1
            /\ net.token = obtained.token
            /\ net.sentAt = obtained.at
            /\ net.tokenExpiration = obtained.at + TokenTTL

\* the cached token is sent in the last millisecond of its window
C2_Witness ==
  /\ net.kind = "graphql"
  /\ tokenCall.hit
  /\ net.sentAt = net.tokenExpiration - 1

\* the items whose creation call succeeded, in order: their identifiers
CreatedIds == SelectSeq(attempts, LAMBDA id : id # 0)

\* C3, as stated: whichever precondition creation calls fail, every item is
\* attempted, createTest is issued with exactly the identifiers of the
\* preconditions that were created, and preconditionsCreated is their number.
C3_PartialFailureIsolation ==
  /\ mutation.op = "createTest" =>
       /\ Len(attempts) = input.n
       /\ mutation.preconditionIssueIds = CreatedIds
  /\ result.present => result.preconditionsCreated = Len(CreatedIds)

\* the second of three items fails and createTest is issued with the identifiers
\* of the first and the third
C3_Witness ==
  /\ mutation.op = "createTest"
  /\ input.n = 3
  /\ attempts = <<PreconditionIdOf(1), 0, PreconditionIdOf(3)>>
  /\ mutation.preconditionIssueIds = <<PreconditionIdOf(1), PreconditionIdOf(3)>>
  /\ net.kind = "graphql"

\* C4: when the createTest response carries a non-empty errors array, or no
\* created-test payload, the run fails with an error, there is no result, and no
\* request follows, whatever the precondition stage produced.
C4_FatalStage ==
  (/\ reply.kind = "returned"
   /\ mutation.op = "createTest"
   /\ (reply.errors = "nonempty" \/ reply.data # "entity"))
  => /\ pc = "Failed"
     /\ error \in {"graphqlErrors", "noData"}
     /\ ~result.present
     /\ ~testCase.present
     /\ net = NoRequest

\* errors beside a complete payload, after every precondition was created
C4_Witness ==
  /\ pc = "Failed"
  /\ reply.kind = "returned"
  /\ reply.errors = "nonempty"
  /\ reply.data = "entity"
  /\ input.n = 3
  /\ Len(createdPreconditionIds) = 3
  /\ input.userStoryData.present

\* no payload at all, after no precondition was created
C4_NoDataWitness ==
  /\ pc = "Failed"
  /\ reply.kind = "returned"
  /\ reply.errors = "absent"
  /\ reply.data = "none"
  /\ createdPreconditionIds = <<>>

\* C5, as stated: with an originating issue supplied, a run whose link stage
\* failed still ends with a result, which reports userStoryLinked = FALSE;
\* userStoryLinked is TRUE only when the link was created.
C5_LinkFailureReported ==
  (pc = "Done" /\ mutation.op = "createTest" /\ input.userStoryData.present) =>
    /\ result.present
    /\ testCase.userStoryLinked <=> linkOutcome = "created"

\* the link request was rejected and the run ended with a result
C5_Witness ==
  /\ pc = "Done"
  /\ linkOutcome = "rejected"
  /\ result.present
  /\ testCase.userStoryLinked

\* the stage a request in flight belongs to
StageOf(kind) ==
  IF kind \in {"auth", "graphql"} THEN {"Preconditions", "TestCreation"}
  ELSE IF kind \in {"linkTypes", "issueLink"} THEN {"Linking"}
  ELSE {"Idle", "Done", "Failed"}

\* the edges of the orchestrator's state machine
OrchestratorEdges ==
  { <<"Idle", "Preconditions">>,
    <<"Preconditions", "TestCreation">>,
    <<"TestCreation", "Linking">>,
    <<"TestCreation", "Done">>,
    <<"TestCreation", "Failed">>,
    <<"Linking", "Done">>,
    <<"Done", "Idle">>,
    <<"Failed", "Idle">> }

\* C6: a run moves Idle -> Preconditions -> TestCreation -> (Linking ->) Done or
\* Failed; Failed is entered from TestCreation only, whatever the precondition
\* calls and the link stage produce; a request is in flight exactly in the
\* three in-flight stages, and it is a request of that stage.
C6_StateMachine ==
  [][ /\ pc' # pc => <<pc, pc'>> \in OrchestratorEdges
      /\ pc' \in StageOf(net'.kind)
      /\ pc' = "Failed" => (pc = "TestCreation" \/ pc = "Failed") ]_vars

\* a run in which no precondition was created and the link was rejected is Done
C6_Witness ==
  /\ pc = "Done"
  /\ input.n = 3
  /\ attempts = <<0, 0, 0>>
  /\ linkOutcome = "rejected"
  /\ result.present

\* every request in flight carries a cancellation deadline
EveryCallHasDeadline == net.kind # "none" => net.deadline # NoDeadline

\* C7, as stated: every outbound call carries a deadline, so a run that has
\* started reaches a terminal outcome even if a service never responds.
C7_BoundedTime ==
  (pc \in {"Preconditions", "TestCreation", "Linking"}) ~> (pc \in {"Done", "Failed"})

\* the two GraphQL stages do end under their deadlines
GraphQLStagesEnd ==
  (pc \in {"Preconditions", "TestCreation"}) ~> (pc \in {"Linking", "Done", "Failed"})

\* the catalog request is in flight: nothing but a response ends the stage
C7_Witness ==
  /\ pc = "Linking"
  /\ net.kind = "linkTypes"
  /\ net.deadline = NoDeadline
  /\ ~ENABLED AuthTimeout
  /\ ~ENABLED GraphQLTimeout

ContainsTest(s) ==
  \E k \in 1..Len(s) :
    /\ k + 3 <= Len(s)
    /\ \A j \in 0..3 : ToLowerCase(s)[k + j] = StrTest[j + 1]

MentionsTest(entry) ==
  ContainsTest(entry.name) \/ ContainsTest(entry.inward) \/ ContainsTest(entry.outward)

\* C9: the link request names the first catalog entry whose name, inward verb or
\* outward verb contains "test" in any letter case; when no entry does, the
\* resolver ends with the no-link-type error and sends no link request.
C9_FirstTestEntry ==
  /\ net.kind = "issueLink" =>
       \E k \in 1..Len(linkTypes) :
         /\ MentionsTest(linkTypes[k])
         /\ \A j \in 1..(k - 1) : ~MentionsTest(linkTypes[j])
         /\ net.body.type = linkTypes[k].name
  /\ linkOutcome = "noLinkType" =>
       /\ \A k \in 1..Len(linkTypes) : ~MentionsTest(linkTypes[k])
       /\ pc = "Done"
       /\ net = NoRequest
  /\ (linkTypes # <<>> /\ \A k \in 1..Len(linkTypes) : ~MentionsTest(linkTypes[k])) =>
       linkOutcome = "noLinkType"

\* the second entry is selected, on its inward verb "is Tested by"
C9_Witness ==
  /\ net.kind = "issueLink"
  /\ Len(linkTypes) = 2
  /\ ~MentionsTest(linkTypes[1])
  /\ ~ContainsTest(linkTypes[2].name)
  /\ ~ContainsTest(linkTypes[2].outward)
  /\ linkTypes[2].inward # ToLowerCase(linkTypes[2].inward)
  /\ net.body.type = linkTypes[2].name

\* a catalog of two entries without "test": no request
C9_NoMatchWitness ==
  /\ linkOutcome = "noLinkType"
  /\ Len(linkTypes) = 2
  /\ net = NoRequest

\* C10: the synthesized steps are numbered by position, from 1, without gaps
\* or duplicates, whichever topical rule fired.
C10_StepNumbering ==
  storyText # <<>> =>
    /\ Len(testSteps) >= 4
    /\ \A k \in 1..Len(testSteps) : testSteps[k].stepNumber = k

\* the domain rule with its weather sub-rule fired: nine steps
C10_Witness ==
  /\ IsClothingStory(ToLowerCase(storyText))
  /\ IsWeatherStory(ToLowerCase(storyText))
  /\ Len(testSteps) = 9
  /\ testSteps[9].stepNumber = 9

\* the other three flows: partial domain, creation, generic
C10_PartialDomainWitness ==
  /\ IsClothingStory(ToLowerCase(storyText))
  /\ ~IsWeatherStory(ToLowerCase(storyText))
  /\ Len(testSteps) = 4

C10_CreationWitness ==
  /\ ~IsClothingStory(ToLowerCase(storyText))
  /\ IsCreationStory(ToLowerCase(storyText))
  /\ Len(testSteps) = 6

C10_GenericWitness ==
  /\ storyText # <<>>
  /\ ~IsClothingStory(ToLowerCase(storyText))
  /\ ~IsCreationStory(ToLowerCase(storyText))
  /\ Len(testSteps) = 4

\* the actions of the steps between the two bootstrap steps and the closing step
TopicalActions ==
  [k \in 1..(Len(testSteps) - 3) |-> testSteps[k + 2].action]

\* C11: every synthesized sequence starts with the two bootstrap steps, ends with
\* the verification step, and has at least one step between them.
C11_StepScaffolding ==
  storyText # <<>> =>
    /\ Len(testSteps) >= 4
    /\ testSteps[1].action = "Navigate to the application"
    /\ testSteps[2].action = "Authenticate with valid credentials"
    /\ testSteps[Len(testSteps)].action = "Verify final state and functionality"
    /\ \A k \in 3..(Len(testSteps) - 1) :
         testSteps[k].action \notin { "Navigate to the application",
                                      "Authenticate with valid credentials",
                                      "Verify final state and functionality" }

\* the generic flow: exactly one step between the scaffolding, naming the title
C11_Witness ==
  /\ storyText # <<>>
  /\ Len(testSteps) = 4
  /\ testSteps[3].action = "Access the feature"
  /\ testSteps[3].subject = ToLowerCase(Title(storyText))
  /\ testSteps[3].subject # Title(storyText)

DomainActions ==
  << "Navigate to the clothing recommendations section",
     "Set or verify location and preferences",
     "Request personalized clothing suggestions",
     "Verify weather-based recommendations",
     "Verify seasonal appropriateness",
     "Verify regional considerations" >>

CreationActions ==
  << "Navigate to the creation feature",
     "Fill in required information",
     "Submit the creation request" >>

\* the keyword tests of the rules, on the lower-cased text
Mentions(text, word) == Includes(ToLowerCase(text), word)

DomainRule(text) ==
  /\ Mentions(text, <<"c","l","o","t","h","i","n","g">>)
  /\ Mentions(text, <<"s","u","g","g","e","s","t","i","o","n">>)
       \/ Mentions(text, <<"r","e","c","o","m","m","e","n","d">>)
  /\ \/ Mentions(text, <<"w","e","a","t","h","e","r">>)
     \/ Mentions(text, <<"s","e","a","s","o","n">>)
     \/ Mentions(text, <<"r","e","g","i","o","n">>)

CreationRule(text) ==
  \/ Mentions(text, <<"c","r","e","a","t","e">>)
  \/ Mentions(text, <<"a","d","d">>)
  \/ Mentions(text, <<"n","e","w">>)

\* C12, as stated: first match wins: the domain rule (clothing-recommendation
\* and weather/season/region keywords) emits only its steps; otherwise a text
\* with create/add/new gets the create-fill-submit sequence; otherwise exactly
\* one "access the feature" step is emitted.
C12_RulePriority ==
  storyText # <<>> =>
    IF DomainRule(storyText) THEN TopicalActions = DomainActions
    ELSE IF CreationRule(storyText) THEN TopicalActions = CreationActions
    ELSE TopicalActions = << "Access the feature" >>

\* clothing-recommendation keywords without a weather keyword, beside "create":
\* the only topical step is the first step of the domain rule
C12_Witness ==
  /\ storyText # <<>>
  /\ ~DomainRule(storyText)
  /\ CreationRule(storyText)
  /\ TopicalActions = << "Navigate to the clothing recommendations section" >>

EndsSegment(c) == c \in {"/", "?", "#"}

\* the longest prefix of s without a character that ends a segment
RECURSIVE SegmentOf(_)
SegmentOf(s) ==
  IF s = <<>> \/ EndsSegment(Head(s)) THEN <<>> ELSE <<Head(s)>> \o SegmentOf(Tail(s))

\* s from the first occurrence of "/browse/" on, that occurrence removed
RECURSIVE AfterBrowse(_)
AfterBrowse(s) ==
  IF Len(s) < Len(StrBrowse) THEN <<>>
  ELSE IF SubSeq(s, 1, Len(StrBrowse)) = StrBrowse
       THEN SubSeq(s, Len(StrBrowse) + 1, Len(s))
       ELSE AfterBrowse(Tail(s))

\* s up to the first occurrence of "/browse/"
RECURSIVE BeforeBrowse(_)
BeforeBrowse(s) ==
  IF Len(s) >= Len(StrBrowse) /\ SubSeq(s, 1, Len(StrBrowse)) = StrBrowse THEN <<>>
  ELSE IF s = <<>> THEN <<>>
  ELSE <<Head(s)>> \o BeforeBrowse(Tail(s))

IsBrowseUrl(s) ==
  \E k \in 1..Len(s) :
    /\ k + Len(StrBrowse) - 1 <= Len(s)
    /\ SubSeq(s, k, k + Len(StrBrowse) - 1) = StrBrowse

\* a full browsable URL: scheme and host, then /browse/, then a key
IsFullBrowseUrl(s) ==
  /\ IsBrowseUrl(s)
  /\ Len(s) >= 4
  /\ SubSeq(s, 1, 4) = <<"h",":","/","/">>
  /\ ~IsBrowseUrl(BeforeBrowse(s) \o <<"/">>)
  /\ SegmentOf(AfterBrowse(s)) # <<>>

\* C14, as stated: for an identifier that is a browse URL the key looked up is
\* the path segment following /browse/, nothing before it and nothing after it,
\* and the base URL is the part before /browse/; a bare key is looked up
\* unchanged with the static base URL.
C14_KeyExtraction ==
  /\ (extraction.present /\ IsFullBrowseUrl(extraction.issueId)) =>
       /\ extraction.key = SegmentOf(AfterBrowse(extraction.issueId))
       /\ extraction.jiraBaseUrl = BeforeBrowse(extraction.issueId)
  /\ (extraction.present /\ ~IsBrowseUrl(extraction.issueId)) =>
       /\ extraction.key = extraction.issueId
       /\ extraction.jiraBaseUrl = StaticBaseUrl

\* a browse URL that ends with the key: key and base URL are as the spec says
C14_Witness ==
  /\ extraction.present
  /\ extraction.issueId = <<"h",":","/","/","j",".","n","e","t">> \o StrBrowse \o <<"P","-","1">>
  /\ extraction.key = <<"P","-","1">>
  /\ extraction.jiraBaseUrl = <<"h",":","/","/","j",".","n","e","t">>

\* the lookup of the invocation has just ended with this status
LookupEnded(status) == exchange.kind = "lookup" /\ exchange.status = status

\* no executeXrayGraphQL call was made by the invocation: neither an
\* authentication exchange nor a GraphQL request is or was in flight
NoGraphQLRequest == net = NoRequest /\ ~tokenCall.made /\ mutation.op = "none"

\* C15: in each of the five read functions a non-success tracker status ends the
\* function with a lookup error whose message includes the attempted key, the
\* expiry of the 5-second deadline ends it with a timeout error, and in neither
\* case is a GraphQL request issued afterwards.
C15_LookupFailure ==
  /\ LookupEnded("notOk") =>
       /\ answer.kind = "threw"
       /\ answer.class = "lookupFailed"
       /\ answer.key
       /\ NoGraphQLRequest
  /\ LookupEnded("timeout") =>
       /\ answer.kind = "threw"
       /\ answer.class = "lookupTimeout"
       /\ answer.key
       /\ NoGraphQLRequest

\* getTestSets has received a 404 with a JSON error document from the tracker and
\* its GraphQL request is in flight
C15_Witness ==
  /\ call.flow = "getTestSets"
  /\ LookupEnded("notOk")
  /\ pc = "Query"
  /\ net.kind = "graphql"
  /\ net.mutation.issueId = NullId

\* getTestSteps has ended with the lookup error, and no request followed
C15_CheckedWitness ==
  /\ call.flow = "getTestSteps"
  /\ LookupEnded("notOk")
  /\ answer.class = "lookupFailed"
  /\ NoGraphQLRequest

\* the exchange of the read invocation that just ended
ExchangeEnded(kind, status) == exchange.kind = kind /\ exchange.status = status

\* the token could not be obtained
TokenFailed == exchange.kind = "auth" /\ exchange.status # "ok"

\* C16, as stated: whenever the HTTP response has a success status,
\* executeXrayGraphQL returns the parsed body unchanged, top-level errors included;
\* it fails only when obtaining the token fails, the 10-second deadline expires
\* or the HTTP status is non-success.
C16_PassThrough ==
  /\ ExchangeEnded("graphql", "ok") =>
       reply = [kind |-> "returned", errors |-> exchange.errors,
                data |-> exchange.data, issueId |-> NullId]
  /\ reply.kind = "threw" =>
       \/ TokenFailed
       \/ ExchangeEnded("graphql", "timeout")
       \/ ExchangeEnded("graphql", "notOk")

\* C16, amended: whenever the HTTP response has a success status and a JSON body,
\* executeXrayGraphQL returns the parsed body unchanged, top-level errors included;
\* it fails only when obtaining the token fails, the 10-second deadline expires,
\* the HTTP status is non-success, the request fails without a response, or the
\* body of a success response is not JSON, and never because the body lists errors.
C16_JsonPassThrough ==
  /\ ExchangeEnded("graphql", "ok") /\ exchange.data # NotJson =>
       reply = [kind |-> "returned", errors |-> exchange.errors,
                data |-> exchange.data, issueId |-> NullId]
  /\ reply.kind = "threw" =>
       \/ TokenFailed
       \/ ExchangeEnded("graphql", "timeout")
       \/ ExchangeEnded("graphql", "notOk")
       \/ ExchangeEnded("graphql", "networkError")
       \/ ExchangeEnded("graphql", "ok") /\ exchange.data = NotJson

\* a success response whose body lists errors and carries no data was handed back
C16_Witness ==
  /\ ExchangeEnded("graphql", "ok")
  /\ exchange.errors = "nonempty"
  /\ exchange.data = "none"
  /\ reply.kind = "returned"
  /\ reply.errors = "nonempty"

\* the GraphQL request failed without a response and the call failed
C16_TransportWitness ==
  /\ ExchangeEnded("graphql", "networkError")
  /\ reply.kind = "threw"
  /\ reply.class = "networkError"

TimeoutClasses == { "authTimeout", "graphqlTimeout" }
RejectionClasses == { "authRejected", "graphqlRejected" }

\* C17: an expired deadline of an authentication or GraphQL call surfaces as a
\* timeout error and a non-success HTTP status as a rejection error that carries
\* status and body; neither class is raised for the other cause, and each error
\* is labelled with the call that met it: an authentication timeout inside a
\* GraphQL call stays an authentication timeout.
C17_TimeoutVersusRejection ==
  reply.kind = "threw" =>
    /\ exchange.kind \in {"auth", "graphql"}
    /\ exchange.status = "timeout" <=> reply.class \in TimeoutClasses
    /\ exchange.status = "notOk" <=> reply.class \in RejectionClasses
    /\ reply.class \in {"authTimeout", "authRejected"} <=>
         exchange.kind = "auth" /\ exchange.status \in {"timeout", "notOk"}
    /\ reply.class \in RejectionClasses => {"status", "body"} \subseteq reply.carries
    /\ reply.class \in TimeoutClasses => reply.carries = {}

\* the authentication deadline expired inside the GraphQL call of a read flow
C17_Witness ==
  /\ mutation.op = "query"
  /\ ExchangeEnded("auth", "timeout")
  /\ reply.kind = "threw"
  /\ reply.class = "authTimeout"

\* the GraphQL endpoint rejected the request
C17_RejectionWitness ==
  /\ ExchangeEnded("graphql", "notOk")
  /\ reply.kind = "threw"
  /\ reply.class = "graphqlRejected"

\* an authentication exchange or GraphQL request of the call failed or timed out
RequestFailed == exchange.kind \in {"auth", "graphql"} /\ exchange.status # "ok"

\* C18: one getXrayAuthToken call issues at most one authentication exchange and
\* one executeXrayGraphQL call at most one GraphQL request; once an exchange has
\* failed or timed out the call has ended with an error and no request is in flight.
C18_NoInternalRetry ==
  /\ sent.auth <= 1
  /\ sent.graphql <= 1
  /\ tokenCall.exchanges = sent.auth
  /\ RequestFailed => reply.kind = "threw" /\ net = NoRequest /\ pc = "Done"

\* the GraphQL request of a call that had to authenticate first timed out: one
\* exchange and one request were issued, and the call has ended
C18_Witness ==
  /\ ExchangeEnded("graphql", "timeout")
  /\ sent.auth = 1
  /\ sent.graphql = 1
  /\ reply.kind = "threw"
  /\ net = NoRequest

\* this step is the arrival of a success response to an authentication exchange
AuthenticationSucceeds ==
  /\ net.kind = "auth"
  /\ exchange'.kind = "auth"
  /\ exchange'.status = "ok"

\* C19: a step changes the cached token or its expiry only if it is a successful
\* authentication exchange, and that step writes both: the token received and
\* the moment of receipt plus one hour; every successful exchange writes them. A
\* rejected or timed-out exchange and every other step leave both as they were.
C19_CacheFrame ==
  [][ IF AuthenticationSucceeds
      THEN /\ cachedAuthToken' = tokenCall'.returned
           /\ cachedAuthToken' = obtained'.token
           /\ tokenExpiration' = now + TokenTTL
      ELSE UNCHANGED cacheVars ]_vars

\* a token fetched after the first one expired has replaced it in the cache, and
\* the call after that met a rejected exchange, which left the cache as it was
C19_Witness ==
  /\ ExchangeEnded("auth", "notOk")
  /\ cachedAuthToken = <<"b">>
  /\ tokenExpiration = obtained.at + TokenTTL
  /\ tokenExpiration <= now
  /\ obtained.at > 0

\* getXrayData was called without a selector: dataType absent or empty
NoSelector == call.dataType \in {Missing, ""}

\* the read function a selector names, by its id in the menu
Selected ==
  [dataType \in {"test-steps", "preconditions", "test-sets", "test-plans", "test-runs"} |->
     CASE dataType = "test-steps" -> "getTestSteps"
       [] dataType = "preconditions" -> "getPreconditions"
       [] dataType = "test-sets" -> "getTestSets"
       [] dataType = "test-plans" -> "getTestPlans"
       [] dataType = "test-runs" -> "getTestRuns"]

\* the invocation has issued no request of any kind
NoNetworkCall ==
  /\ net = NoRequest
  /\ sent = NoneSent
  /\ ~tokenCall.made
  /\ exchange = NoExchange

\* the requests of the invocation are those of this read function
DispatchedTo(flow) ==
  /\ call.flow = flow
  /\ net.kind = "lookup" => net.flow = flow
  /\ mutation.op # "none" => mutation.flow = flow
  /\ net.kind = "graphql" => net.mutation.flow = flow
  /\ pc \in ReadStages \/ answer.kind \in {"returned", "threw"}

\* C20: called without a data-type selector, getXrayData returns the menu of
\* exactly the five options test-steps, preconditions, test-sets, test-plans,
\* test-runs and issues no network call; called with one of the five ids it runs
\* the read function of that id and no other; called with any other selector it
\* fails with an error and issues no network call.
C20_AmbiguousRequest ==
  call.entry = "getXrayData" =>
    IF NoSelector
    THEN /\ answer.kind = "menu"
         /\ answer.options = << "test-steps", "preconditions", "test-sets",
                                "test-plans", "test-runs" >>
         /\ pc = "Done"
         /\ NoNetworkCall
    ELSE IF call.dataType \in DOMAIN Selected
    THEN /\ DispatchedTo(Selected[call.dataType])
         /\ answer.kind # "menu"
         /\ answer.class # "unknownDataType"
    ELSE /\ answer.kind = "threw"
         /\ answer.class = "unknownDataType"
         /\ pc = "Done"
         /\ NoNetworkCall

\* getXrayData was called without a selector and has returned the menu
C20_Witness ==
  /\ call.entry = "getXrayData"
  /\ call.dataType = Missing
  /\ answer.kind = "menu"
  /\ Len(answer.options) = 5

\* the selector test-plans has reached the GraphQL request of getTestPlans
C20_DispatchWitness ==
  /\ call.entry = "getXrayData"
  /\ call.dataType = "test-plans"
  /\ net.kind = "graphql"
  /\ net.mutation.flow = "getTestPlans"

\* a selector that differs from an id in case only has been refused
C20_UnknownWitness ==
  /\ call.entry = "getXrayData"
  /\ call.dataType = "Test-Steps"
  /\ answer.class = "unknownDataType"
  /\ NoNetworkCall

\* the operations that need payload.issueId
NeedIssueId == ReadFlows \cup {"getUserStory", "getLinkedTestCases"}

\* the invocation lacks the identifier its operation requires
MissingIdentifier(c) ==
  \/ c.entry \in NeedIssueId /\ ~c.issueId
  \/ c.entry = "getXrayData" /\ c.flow \in ReadFlows /\ ~c.issueId
  \/ c.entry = "generateTestCase" /\ c.userStory \in {NullToken, <<>>}

ValidationErrors == {"issueIdRequired", "userStoryRequired"}

\* C21: an operation invoked without the identifier it requires (issueId for the
\* read flows, getUserStory and getLinkedTestCases; userStory for generateTestCase)
\* ends in the step of its invocation with a validation error: no authentication,
\* tracker or GraphQL request has been issued and the token cache is as it was.
\* An invocation that has its identifier raises no validation error.
C21_ValidationImmediate ==
  [][ pc = "Idle" /\ pc' # "Idle" =>
        IF MissingIdentifier(call')
        THEN /\ answer'.kind = "threw"
             /\ answer'.class \in ValidationErrors
             /\ pc' = "Done"
             /\ net' = NoRequest
             /\ sent' = NoneSent
             /\ ~tokenCall'.made
             /\ exchange' = NoExchange
             /\ UNCHANGED cacheVars
        ELSE answer'.class \notin ValidationErrors ]_vars

\* generateTestCase was invoked with an empty userStory and a project key while
\* the cache held a token: it has failed, and the cache holds the token still
C21_Witness ==
  /\ call.entry = "generateTestCase"
  /\ call.userStory = <<>>
  /\ call.projectKey
  /\ answer.class = "userStoryRequired"
  /\ net = NoRequest
  /\ cachedAuthToken = <<"a">>

\* getLinkedTestCases was invoked without issueId
C21_LinkedWitness ==
  /\ call.entry = "getLinkedTestCases"
  /\ ~call.issueId
  /\ answer.class = "issueIdRequired"
  /\ net = NoRequest

Callers == 1..MaxCallers

\* the invocations whose own authentication exchange succeeded
Succeeded == { c \in Callers : callers[c].issued /\ callers[c].state = "returned" }

\* every invocation has left getXrayAuthToken
AllEnded == \A c \in Callers : callers[c].state \in {"returned", "failed"}

\* C22: invocations that call getXrayAuthToken while no valid token is cached
\* each issue an authentication exchange of their own, as many as there are
\* invocations. An invocation that is handed a token is handed the token of a
\* successful exchange: its own, or, served from the cache, that of an earlier
\* one. Once all have ended and an exchange has succeeded, the cache holds the
\* token of the exchange answered last, with the expiry one hour after its receipt.
C22_UnguardedCache ==
  /\ \A c \in Callers :
       callers[c].state = "returned" =>
         /\ callers[c].token # NullToken
         /\ \E d \in Succeeded :
              /\ callers[d].token = callers[c].token
              /\ callers[d].at <= callers[c].at
         /\ ~callers[c].issued => callers[c].at < tokenExpiration
  /\ AllEnded /\ Succeeded # {} =>
       \E d \in Succeeded :
         /\ cachedAuthToken = callers[d].token
         /\ tokenExpiration = callers[d].at + TokenTTL
         /\ tokenExpiration > callers[d].at
         /\ \A e \in Succeeded : callers[e].at <= callers[d].at

\* two invocations found no token, each issued its own exchange, each was handed
\* the token of its own exchange, and the cache holds the one answered last
C22_Witness ==
  /\ Succeeded = {1, 2}
  /\ callers[1].token = <<"a">>
  /\ callers[2].token = <<"b">>
  /\ callers[1].at < callers[2].at
  /\ cachedAuthToken = <<"b">>

\* both exchanges are in flight at the same time
C22_InFlightWitness ==
  /\ callers[1].state = "waiting"
  /\ callers[2].state = "waiting"

\* the one request in flight belongs to the executeXrayGraphQL call in progress
OneCallInFlight ==
  /\ net.kind \in {"auth", "graphql"}
  /\ sent.auth + sent.graphql \in {1, 2}
  /\ net.kind = "auth" => sent.graphql = 0
  /\ net.kind = "graphql" => net.mutation = mutation /\ sent.graphql = 1

\* C23: in a creation run the only request in flight is that of the call in
\* progress. While the creation of precondition i is in progress the attempts for
\* the items 1 to i - 1, and only these, have completed, in input order; while
\* createTest is in progress the attempts for all items have completed.
C23_NoFanOut ==
  /\ pc = "Preconditions" =>
       /\ OneCallInFlight
       /\ mutation = CreatePreconditionMutation(i)
       /\ Len(attempts) = i - 1
       /\ i \in 1..input.n
  /\ pc = "TestCreation" =>
       /\ OneCallInFlight
       /\ mutation.op = "createTest"
       /\ Len(attempts) = input.n
  /\ pc \in {"Preconditions", "TestCreation"} =>
       \A k \in 1..Len(attempts) : attempts[k] \in {0, PreconditionIdOf(k)}
  /\ pc = "Linking" => net.kind \in {"linkTypes", "issueLink"}

\* createTest is in flight after three precondition attempts of which the
\* second failed
C23_Witness ==
  /\ pc = "TestCreation"
  /\ net.kind = "graphql"
  /\ input.n = 3
  /\ attempts = <<PreconditionIdOf(1), 0, PreconditionIdOf(3)>>

\* C24: a result of the creation workflow carries the number of steps submitted
\* in the createTest mutation, which is the number of synthesized steps, and the
\* number of precondition identifiers the mutation references; once createTest is
\* accepted the run ends with a result, whatever happened to the preconditions
\* and to the link.
C24_ResultCounts ==
  /\ result.present =>
       /\ mutation.op = "createTest"
       /\ result.testStepsAdded = mutation.steps
       /\ mutation.steps = Len(content.testSteps)
       /\ result.preconditionsCreated = Len(mutation.preconditionIssueIds)
       /\ result.preconditionsCreated <= input.n
       /\ testCase.stepsCreated = mutation.steps
       /\ testCase.preconditionsLinked = Len(mutation.preconditionIssueIds)
  /\ (pc \in {"Done", "Failed"} /\ reply.kind = "returned"
      /\ mutation.op = "createTest" /\ TestAccepted(reply.errors, reply.data)) =>
       /\ pc = "Done"
       /\ result.present

\* a result after two of three preconditions failed and the link was rejected
C24_Witness ==
  /\ result.present
  /\ Len(attempts) = 3
  /\ result.preconditionsCreated = 1
  /\ result.testStepsAdded > 0
  /\ linkOutcome = "rejected"

\* an item without a blob that can be read: the field is missing or null, the
\* test run has no testExecution, or the text is not JSON
Unreadable(flow, item) ==
  \/ item.jira.type \in {"undefined", "null"}
  \/ flow = "getTestRuns" /\ ~item.execution
  \/ item.jira.type = "string" /\ item.jira.text \in BrokenTexts

\* the issue whose JSON text the item carries
IssueOf(item) == CHOOSE issue \in LinkedIssues : Stringify(issue) = item.jira.text

\* C25: in the read flows that list items, an item whose jira blob is missing or
\* is not JSON is shown with no key, summary, status and link; every other item
\* is shown with the key, summary, status and link of its issue, and the
\* operation returns a response with one entry per item.
C25_BlobParseDegradation ==
  formatted.present =>
    /\ formatted.kind = "returned"
    /\ Len(formatted.items) = Len(formatted.results)
    /\ \A k \in 1..Len(formatted.results) :
         LET item == formatted.results[k]
             shown == formatted.items[k]
         IN /\ shown.issueId = item.issueId
            /\ IF Unreadable(formatted.flow, item)
               THEN /\ shown.key.t \in {"null", "undefined"}
                    /\ shown.summary.t \in {"null", "undefined"}
                    /\ shown.status.t \in {"null", "undefined"}
                    /\ shown.link = NullLink
               ELSE /\ shown.key = [t |-> "string", v |-> IssueOf(item).key]
                    /\ shown.summary = [t |-> "string", v |-> IssueOf(item).summary]
                    /\ shown.status = [t |-> "string", v |-> IssueOf(item).status]
                    /\ shown.link = [t |-> "string",
                                     v |-> StaticBaseUrl \o StrBrowse \o IssueOf(item).key]

\* a page of test sets whose first item carries a text that is not JSON and
\* whose second item carries a blob
C25_Witness ==
  /\ formatted.present
  /\ formatted.flow = "getTestSets"
  /\ Len(formatted.results) = 2
  /\ formatted.results[1].jira.type = "string"
  /\ formatted.results[1].jira.text \in BrokenTexts
  /\ formatted.items[1].link = NullLink
  /\ formatted.results[2].jira.type = "string"
  /\ formatted.items[2].key = [t |-> "string", v |-> <<"P","-","7">>]

\* a test run without a testExecution
C25_RunWitness ==
  /\ formatted.present
  /\ formatted.flow = "getTestRuns"
  /\ Len(formatted.results) = 1
  /\ ~formatted.results[1].execution
  /\ formatted.items[1].key.t = "undefined"

\* the positions a..b of the text hold its first line with a character that is
\* not whitespace, when a line begins at a and a line ends at b: nothing but
\* whitespace precedes the line
FirstLineAt(text, a, b) ==
  /\ a <= b
  /\ \A k \in 1..(a - 1) : IsWhitespace(text[k])
  /\ \A k \in a..b : text[k] # Newline
  /\ \E k \in a..b : ~IsWhitespace(text[k])

\* where the lines of a text begin and end
LineStarts(text) == { a \in 1..Len(text) : a = 1 \/ text[a - 1] = Newline }
LineEnds(text) == { b \in 1..Len(text) : b = Len(text) \/ text[b + 1] = Newline }

\* s begins the text t
Begins(s, t) == Len(s) <= Len(t) /\ SubSeq(t, 1, Len(s)) = s

\* C26: the summary of the generated content is "Test: " followed by the first
\* line of the synthesis input that is not blank; after a successful fetch of the
\* issue that payload.userStory names, the synthesis input begins with the
\* fetched summary and the generated summary is "Test: " followed by it.
C26_TitleAndSummary ==
  [][(content' # content /\ content'.present) =>
       /\ \A a \in LineStarts(storyText') : \A b \in LineEnds(storyText') :
            FirstLineAt(storyText', a, b) =>
              content'.summary = StrTestColon \o SubSeq(storyText', a, b)
       /\ (call.entry = "generateTestCase" /\ exchange'.kind = "story"
           /\ exchange'.status = "ok") =>
            /\ IsIssueReference(call.userStory)
            /\ Begins(exchange'.summary, storyText')
            /\ content'.summary = StrTestColon \o exchange'.summary]_vars

\* "PROJ-10" is fetched with the summary "Login feature"
C26_Witness ==
  /\ call.entry = "generateTestCase"
  /\ call.userStory = <<"P","R","O","J","-","1","0">>
  /\ exchange.kind = "story"
  /\ exchange.summary = <<"L","o","g","i","n"," ","f","e","a","t","u","r","e">>
  /\ content.summary = <<"T","e","s","t",":"," ","L","o","g","i","n"," ","f","e","a","t","u","r","e">>

\* a text whose first line is blank: the title is its second line
C26_BlankLineWitness ==
  /\ call.entry = "generateTestCase"
  /\ storyText = <<" ","\n","l","o","g","i","n">>
  /\ content.summary = <<"T","e","s","t",":"," ","l","o","g","i","n">>

\* C27, as stated: a createTest response with a success status, the created
\* test and an errors entry that is absent or empty ends the run with a result,
\* and a createPrecondition response of that kind adds the precondition to the
\* created ones.
C27_EmptyErrorsSucceed ==
  /\ (pc \in {"Done", "Failed"} /\ mutation.op = "createTest"
      /\ reply.kind = "returned" /\ CreationSucceeded(reply.errors, reply.data)) =>
       /\ pc = "Done"
       /\ result.present
  /\ pc \in {"Preconditions", "TestCreation"} => createdPreconditionIds = CreatedIds

\* the createTest response carries the created test and an empty errors array,
\* and the run has failed without a result
C27_Witness ==
  /\ pc = "Failed"
  /\ mutation.op = "createTest"
  /\ reply.kind = "returned"
  /\ reply.errors = "empty"
  /\ reply.data = "entity"
  /\ error = "graphqlErrors"
  /\ ~result.present

\* C28, as stated: the key of the result is the key of the created issue, which
\* the response carries in its jira field as a string or as an object, and the
\* URL of the result is the base URL, /browse/ and that key.
C28_CreationResultKey ==
  creation.stage = "result" =>
    /\ creation.jiraKey = [t |-> "string", v |-> creation.created]
    /\ creation.jiraUrl =
         (IF TruthyString(creation.jiraBaseUrl) THEN creation.jiraBaseUrl
          ELSE StaticBaseUrl) \o StrBrowse \o creation.created

\* the jira field is a string: the result has no key and its URL ends in
\* /browse/undefined
C28_Witness ==
  /\ creation.stage = "result"
  /\ creation.jira.type = "string"
  /\ JSONParse(creation.jira.text).t = "object"
  /\ creation.jiraKey.t = "undefined"
  /\ creation.jiraUrl = StaticBaseUrl \o StrBrowse \o StrUndefined

\* the jira field is an object: the result carries the key of the created issue
C28_ObjectWitness ==
  /\ creation.stage = "result"
  /\ creation.jira.type = "object"
  /\ creation.jiraKey = [t |-> "string", v |-> <<"P","-","1">>]
  /\ creation.jiraUrl = StaticBaseUrl \o StrBrowse \o <<"P","-","1">>

\* C29: an invocation of generateTestCase with a user story never throws; when
\* it ends it returns the generated test case, synthesized from the text as
\* given when the fetch of the story failed. With a project key the response
\* carries xrayTestCase when the creation workflow gave a result and
\* xrayCreationError when it threw, never both; without a project key it
\* carries neither, and no authentication, GraphQL or link request is issued.
C29_AlwaysReturns ==
  (call.entry = "generateTestCase" /\ TruthyString(call.userStory)) =>
    /\ answer.kind \in {"none", "returned"}
    /\ (exchange.kind = "story" /\ exchange.status # "ok") =>
         /\ content.present
         /\ storyText = call.userStory
    /\ pc \in {"Done", "Failed"} =>
         /\ answer.kind = "returned"
         /\ content.present
         /\ ~(result.present /\ error # "none")
         /\ IF call.projectKey
            THEN /\ answer.class \in {"xrayTestCase", "xrayCreationError"}
                 /\ answer.class = "xrayTestCase" <=> result.present
                 /\ answer.class = "xrayCreationError" <=> error # "none"
            ELSE /\ answer.class = "generatedTestCase"
                 /\ ~result.present
                 /\ error = "none"
    /\ ~call.projectKey =>
         /\ net.kind \in {"none", "story"}
         /\ mutation.op = "none"
         /\ sent = NoneSent
         /\ attempts = <<>>

\* the story could not be fetched and the creation workflow failed: the response
\* carries the test case generated from the key and xrayCreationError
C29_Witness ==
  /\ call.entry = "generateTestCase"
  /\ call.projectKey
  /\ IsIssueReference(call.userStory)
  /\ storyText = call.userStory
  /\ pc = "Failed"
  /\ error # "none"
  /\ answer.kind = "returned"
  /\ answer.class = "xrayCreationError"

\* without a project key the response carries the generated test case alone
C29_NoProjectWitness ==
  /\ call.entry = "generateTestCase"
  /\ ~call.projectKey
  /\ pc = "Done"
  /\ exchange.kind = "story"
  /\ exchange.status = "ok"
  /\ answer.kind = "returned"
  /\ answer.class = "generatedTestCase"

\* C30: the catalog request is issued only in the step in which the createTest
\* response of the run is accepted, and only for a story that was fetched and
\* has an id; the link request is issued only after the catalog answered; neither
\* is issued again in the run, and a run that failed has issued neither.
C30_LinkOrdering ==
  [][/\ (net'.kind = "linkTypes" /\ net.kind # "linkTypes") =>
          /\ pc = "TestCreation"
          /\ net.kind = "graphql"
          /\ mutation.op = "createTest"
          /\ reply'.kind = "returned"
          /\ CreationSucceeded(reply'.errors, reply'.data)
          /\ input.userStoryData.present
          /\ TruthyId(input.userStoryData.id)
          /\ call.entry = "generateTestCase" => IsIssueReference(call.userStory)
     /\ (net'.kind = "issueLink" /\ net.kind # "issueLink") =>
          /\ pc = "Linking"
          /\ net.kind = "linkTypes"
     /\ net.kind = "linkTypes" => (net' = net \/ net'.kind \in {"issueLink", "none"})
     /\ net.kind = "issueLink" => (net' = net \/ net'.kind = "none")
     /\ pc = "Linking" => pc' \in {"Linking", "Done"}
     /\ pc \in {"Done", "Failed"} => net'.kind = "none"
     /\ pc' = "Failed" => linkOutcome' = "none"]_vars

\* the link request of a generateTestCase invocation is in flight
C30_Witness ==
  /\ call.entry = "generateTestCase"
  /\ pc = "Linking"
  /\ net.kind = "issueLink"
  /\ input.userStoryData.present

\* the createTest call of a run with a fetched story failed: the run has ended
\* without a link request
C30_FailedWitness ==
  /\ call.entry = "generateTestCase"
  /\ pc = "Failed"
  /\ mutation.op = "createTest"
  /\ input.userStoryData.present
  /\ TruthyId(input.userStoryData.id)
  /\ linkOutcome = "none"

====
